---- MODULE Spec2Model ----
(***************************************************************************)
(* A model of cargo-plugin-utils' windowed subprocess runner               *)
(* (src/src/logger.rs, run_subprocess) together with the Logger whose      *)
(* status line it clears.                                                  *)
(*                                                                         *)
(* Three processes take part in a run: the control flow of run_subprocess  *)
(* (pc), the blocking PTY reader (reader) and the render task (render).    *)
(* Bytes are integers, a chunk or a line is a sequence of bytes, Option<T> *)
(* is a sequence of length at most one.  Time is counted in seconds and    *)
(* only while the control flow waits in one of its two timed joins.        *)
(*                                                                         *)
(* Spec is the run with the Logger calls that can precede it.  SpecLogger  *)
(* is the Logger on its own, with every method up to its drop and the      *)
(* lines it has on the terminal.  SpecGeom applies the region geometry to  *)
(* window heights over the whole range of usize.  SpecHelpers applies the  *)
(* helpers of tty.rs, common.rs and scrolling.rs to their inputs.          *)
(* SpecReader is the run with the reader loop taken statement by           *)
(* statement.  SpecProgress is the ProgressLogger of progress_logger.rs.   *)
(***************************************************************************)
EXTENDS Integers, Sequences, FiniteSets, TLC

VARIABLES
    progress_bar,   \* Logger.progress_bar: None or Some(kind of bar)
    line_count,     \* Logger.line_count
    new_bar,        \* Logger::progress's local `pb` before it is stored in the field
    screen,         \* the lines the Logger has on the terminal (stderr), top first
    printed,        \* history: every permanent line the Logger printed
    last_op,        \* history: the Logger operation that ran last
    suspend_log,    \* Option: what the last Logger::suspend call did
    drop_taken,     \* Option: the bar that Logger's drop took from the field
    pc,             \* position of run_subprocess's control flow
    had_progress,   \* run_subprocess's local: a bar was active at the call
    stderr_lines,   \* window height after unwrap_or(5)
    is_term,        \* console::Term::stderr().is_term()
    size_failed,    \* get_terminal_size() returned Err in this run
    term_rows,      \* rows used for the region geometry
    region_top,     \* first row of the scrolling region
    failed,         \* the setup or wait step that returned Err, "none" otherwise
    child,          \* "none", "running", "exited"
    status,         \* Option<exit code> from child.wait()
    master_open,    \* the PTY master is still held by the control flow
    tx_alive,       \* the reader's sender is alive
    tx_clone_alive, \* the control flow's sender clone is alive
    chan,           \* chunks sent and not yet received
    collected,      \* collected_output, the mutex-guarded fallback buffer
    reader,         \* "none", "running", "done"
    full_output,    \* the reader's local accumulator
    read_error,     \* the reader left its loop through the Err arm
    render,         \* "none", "running", "done"
    output_buffer,  \* the renderer's bytes of the unterminated line
    output_ring,    \* the renderer's ring of lines
    term_out,       \* what the run wrote to standard error, oldest first
    stdout_out,     \* what the run wrote to standard output, oldest first
    waited,         \* seconds the current timed join has waited
    reader_wait,    \* seconds the reader join took
    render_wait,    \* seconds the render join took
    reader_timed_out,
    render_timed_out,
    snapshot,       \* Option: collected_output as cloned in the timeout arm
    pty_output,     \* the bytes the control flow took from the reader join
    was_term,       \* second component of the render join's value
    final_ring,     \* first component of the render join's value
    result,         \* what run_subprocess returned
    reads,          \* history: the chunks the reader read from the PTY, concatenated
    sent,           \* history: the messages sent on the channel, concatenated
    delivered,      \* history: the chunks the renderer received, concatenated
    pushed,         \* history: every line pushed to the ring
    geom_in,        \* Option: a (window height, terminal rows) input of the geometry
    geom_out,       \* Option: the region computed from geom_in
    call_in,        \* Option: the arguments and environment of a helper call
    call_out,       \* Option: what the helper call returned or wrote
    quiet,          \* ProgressLogger.quiet
    progress,       \* ProgressLogger.progress: None or Some(bar)
    pl_stdout,      \* the lines the ProgressLogger printed to standard output
    pl_last         \* Option: the last ProgressLogger call that read the environment

vars == <<progress_bar, line_count, new_bar, screen, printed, last_op,
          suspend_log, drop_taken, pc, had_progress, stderr_lines, is_term, size_failed,
          term_rows, region_top, failed, child, status, master_open, tx_alive,
          tx_clone_alive, chan, collected, reader, full_output, read_error,
          render, output_buffer, output_ring, term_out, stdout_out, waited,
          reader_wait, render_wait, reader_timed_out, render_timed_out, snapshot,
          pty_output, was_term, final_ring, result, reads, sent, delivered,
          pushed, geom_in, geom_out, call_in, call_out, quiet, progress,
          pl_stdout, pl_last>>

loggerVars == <<progress_bar, line_count, new_bar, screen, printed, last_op,
                suspend_log, drop_taken>>
setupVars  == <<had_progress, stderr_lines, is_term, size_failed, term_rows,
                region_top>>
termVars   == <<term_out, stdout_out>>
geomVars   == <<geom_in, geom_out, call_in, call_out>>
plVars     == <<quiet, progress, pl_stdout, pl_last>>
readerVars == <<reader, full_output, read_error, collected, tx_alive, reads, sent>>
renderVars == <<render, output_buffer, output_ring, delivered, pushed>>
joinVars   == <<reader_timed_out, render_timed_out, snapshot, pty_output,
                was_term, final_ring>>
clockVars  == <<waited, reader_wait, render_wait>>

----------------------------------------------------------------------------
(* Bounds of the model *)

MaxStream == 3      \* total bytes the reader reads from the PTY in a run
MaxChunk == 2       \* longest chunk one read returns
MaxN == 2           \* largest explicit window height
TickSecs == 10      \* seconds that pass in one step of the clock
MaxPrinted == 2     \* permanent lines a Logger prints

(* Program constants *)

DefaultLines == 5        \* stderr_lines.unwrap_or(5)
DefaultRows == 24        \* (24u16, 80u16)
U16 == 65536             \* `as u16`
ReadTimeoutSecs == 10    \* Duration::from_secs(10)
RenderTimeoutSecs == 5   \* Duration::from_secs(5)
NL == 10                 \* b'\n'

None == <<>>
Some(x) == <<x>>

Bytes == {NL, 97}
RealRows == {3}
ExitCodes == {0, 42}
WindowHeights == {None} \cup {Some(n) : n \in 1..MaxN}

Min(a, b) == IF a < b THEN a ELSE b

RECURSIVE SeqsUpTo(_, _)
SeqsUpTo(S, n) ==
    IF n = 0 THEN {<<>>}
    ELSE LET shorter == SeqsUpTo(S, n - 1)
         IN  shorter \cup {Append(s, x) : s \in {t \in shorter : Len(t) = n - 1}, x \in S}

Chunks == SeqsUpTo(Bytes, MaxChunk) \ {<<>>}

\* The concatenation of a sequence of byte sequences
RECURSIVE Concat(_)
Concat(ss) == IF ss = <<>> THEN <<>> ELSE Head(ss) \o Concat(Tail(ss))

----------------------------------------------------------------------------
(* Logger *)

\* The Logger's lines on the terminal: an ephemeral line drawn by a bar, or a
\* permanent line printed by one of the five printing methods
BarLine(kind) == <<"bar", kind>>
PermLine(kind) == <<"perm", kind>>
IsBar(l) == l[1] = "bar"
BarLines(scr) == SelectSeq(scr, IsBar)
PermLines(scr) == SelectSeq(scr, LAMBDA l : ~IsBar(l))

PermKinds == {"status_permanent", "print_message", "info", "warning", "error"}
FnResults == {"r1", "r2"}

\* pb.finish_and_clear(), and the drop of a replaced bar: the line of the
\* oldest bar on the terminal goes away
RECURSIVE FinishAndClear(_)
FinishAndClear(scr) ==
    IF scr = <<>> THEN <<>>
    ELSE IF IsBar(Head(scr)) THEN Tail(scr)
    ELSE <<Head(scr)>> \o FinishAndClear(Tail(scr))

\* A new bar with the stderr draw target draws its line below what is there
Draw(scr, kind) == Append(scr, BarLine(kind))

\* A line printed to stderr, inside pb.suspend when a bar is active: the bar
\* is hidden, the line is printed, the bar is drawn again below it
PrintLine(scr, line) == PermLines(scr) \o <<line>> \o BarLines(scr)

\* term.clear_last_lines(n)
ClearLastLines(scr, n) ==
    SubSeq(scr, 1, Len(scr) - (IF n < Len(scr) THEN n ELSE Len(scr)))

\* A Logger method can be called: the logger is alive, no run borrows it and
\* no other method is in progress
LoggerCallable == pc = "idle" /\ last_op # "drop" /\ new_bar = None

\* LoggerStatus that adds one to line_count for every status line shown
LoggerStatus_CountUpMut ==
    /\ LoggerCallable
    /\ screen' = Draw(IF progress_bar # None THEN FinishAndClear(screen) ELSE screen,
                      "status")
    /\ progress_bar' = Some("status")
    /\ line_count' = line_count + 1
    /\ last_op' = "status"
    /\ UNCHANGED <<plVars, geomVars, drop_taken, new_bar, printed, suspend_log, pc, setupVars, failed,
                   child, status, master_open, tx_clone_alive, chan, readerVars,
                   renderVars, termVars, clockVars, joinVars, result>>

\* Logger::set_progress_message: the text of the bar changes, the fields and
\* the lines on the terminal stay
LoggerSetProgressMessage ==
    /\ LoggerCallable
    /\ last_op' = "set_progress_message"
    /\ UNCHANGED <<progress_bar, line_count, screen>>
    /\ UNCHANGED <<plVars, geomVars, drop_taken, new_bar, printed, suspend_log, pc, setupVars, failed,
                   child, status, master_open, tx_clone_alive, chan, readerVars,
                   renderVars, termVars, clockVars, joinVars, result>>

\* Logger::status: take and clear the old bar, create the new one, line_count = 1
LoggerStatus ==
    /\ LoggerCallable
    /\ screen' = Draw(IF progress_bar # None THEN FinishAndClear(screen) ELSE screen,
                      "status")
    /\ progress_bar' = Some("status")
    /\ line_count' = 1
    /\ last_op' = "status"
    /\ UNCHANGED <<plVars, geomVars, drop_taken, new_bar, printed, suspend_log, pc, setupVars, failed,
                   child, status, master_open, tx_clone_alive, chan, readerVars,
                   renderVars, termVars, clockVars, joinVars, result>>

\* Logger::progress, lines 52-60: the new spinner is built and starts to draw;
\* the bar in the field is still there
LoggerProgress ==
    /\ LoggerCallable
    /\ new_bar' = Some("spinner")
    /\ screen' = Draw(screen, "spinner")
    /\ last_op' = "progress"
    /\ UNCHANGED <<plVars, geomVars, drop_taken, progress_bar, line_count, printed, suspend_log, pc,
                   setupVars, failed, child, status, master_open, tx_clone_alive,
                   chan, readerVars, renderVars, termVars, clockVars, joinVars,
                   result>>

\* Logger::progress, line 62: the spinner replaces the field, the old bar is
\* dropped with the assignment; line_count is not touched
LoggerProgressStore ==
    /\ pc = "idle"
    /\ new_bar # None
    /\ progress_bar' = new_bar
    /\ new_bar' = None
    /\ screen' = IF progress_bar # None THEN FinishAndClear(screen) ELSE screen
    /\ UNCHANGED <<plVars, geomVars, drop_taken, line_count, printed, last_op, suspend_log, pc,
                   setupVars, failed, child, status, master_open, tx_clone_alive,
                   chan, readerVars, renderVars, termVars, clockVars, joinVars,
                   result>>

\* status_permanent, print_message, info, warning, error: one line to stderr,
\* inside pb.suspend when a bar is active; the logger's fields are not touched
LoggerPrint ==
    /\ LoggerCallable
    /\ Len(printed) < MaxPrinted
    /\ \E kind \in PermKinds :
         /\ screen' = PrintLine(screen, PermLine(kind))
         /\ printed' = Append(printed, PermLine(kind))
         /\ last_op' = kind
    /\ UNCHANGED <<plVars, geomVars, drop_taken, progress_bar, line_count, new_bar, suspend_log, pc,
                   setupVars, failed, child, status, master_open, tx_clone_alive,
                   chan, readerVars, renderVars, termVars, clockVars, joinVars,
                   result>>

\* ClearStatus that resets line_count and leaves the bar in the field
ClearStatus_NoTakeMut(bar, count) == [progress_bar |-> bar, line_count |-> 0]

\* Logger::clear_status as a function of the logger's two fields
ClearStatus(bar, count) ==
    IF bar # None THEN [progress_bar |-> None, line_count |-> 0]
    ELSE [progress_bar |-> bar, line_count |-> count]

\* Finish that takes the bar and leaves line_count as it is
Finish_KeepCountMut(bar, count) == [progress_bar |-> None, line_count |-> count]

\* Logger::finish as a function of the logger's two fields
Finish(bar, count) ==
    IF bar # None THEN [progress_bar |-> None, line_count |-> 0]
    ELSE [progress_bar |-> bar, line_count |-> count]

\* The terminal after the `if let Some(pb) = self.progress_bar.take()` block
\* of clear_status, finish and drop
AfterTake(bar, scr) == IF bar # None THEN FinishAndClear(scr) ELSE scr

LoggerClearStatus ==
    /\ LoggerCallable
    /\ LET cleared == ClearStatus(progress_bar, line_count)
       IN  /\ progress_bar' = cleared.progress_bar
           /\ line_count' = cleared.line_count
    /\ screen' = AfterTake(progress_bar, screen)
    /\ last_op' = "clear_status"
    /\ UNCHANGED <<plVars, geomVars, drop_taken, new_bar, printed, suspend_log, pc, setupVars, failed,
                   child, status, master_open, tx_clone_alive, chan, readerVars,
                   renderVars, termVars, clockVars, joinVars, result>>

LoggerFinish ==
    /\ LoggerCallable
    /\ LET finished == Finish(progress_bar, line_count)
       IN  /\ progress_bar' = finished.progress_bar
           /\ line_count' = finished.line_count
    /\ screen' = AfterTake(progress_bar, screen)
    /\ last_op' = "finish"
    /\ UNCHANGED <<plVars, geomVars, drop_taken, new_bar, printed, suspend_log, pc, setupVars, failed,
                   child, status, master_open, tx_clone_alive, chan, readerVars,
                   renderVars, termVars, clockVars, joinVars, result>>

\* run_subprocess as the Logger sees it, lines 309-313: the status line is
\* cleared; nothing else in the run touches the logger, and the run has
\* returned before the next method is called
LoggerRunSubprocess ==
    /\ LoggerCallable
    /\ LET cleared == ClearStatus(progress_bar, line_count)
       IN  /\ progress_bar' = cleared.progress_bar
           /\ line_count' = cleared.line_count
    /\ screen' = AfterTake(progress_bar, screen)
    /\ last_op' = "run_subprocess"
    /\ UNCHANGED <<plVars, geomVars, drop_taken, new_bar, printed, suspend_log, pc, setupVars, failed,
                   child, status, master_open, tx_clone_alive, chan, readerVars,
                   renderVars, termVars, clockVars, joinVars, result>>

\* Suspend that runs f only under an active bar
Suspend_SkipIdleMut(bar, r) ==
    IF bar # None THEN [calls |-> 1, ret |-> r] ELSE [calls |-> 0, ret |-> "none"]

\* Logger::suspend on a closure that returns r: pb.suspend(f) hides the bar,
\* calls f and draws the bar again; without a bar f is called directly
Suspend(bar, r) ==
    IF bar # None THEN [calls |-> 1, ret |-> r] ELSE [calls |-> 1, ret |-> r]

LoggerSuspend ==
    /\ LoggerCallable
    /\ \E r \in FnResults :
         LET call == Suspend(progress_bar, r)
         IN  suspend_log' = Some([f |-> r, calls |-> call.calls, ret |-> call.ret,
                                  bar |-> progress_bar, count |-> line_count])
    /\ last_op' = "suspend"
    /\ UNCHANGED <<plVars, geomVars, drop_taken, progress_bar, line_count, new_bar, screen, printed,
                   pc, setupVars, failed, child, status, master_open,
                   tx_clone_alive, chan, readerVars, renderVars, termVars,
                   clockVars, joinVars, result>>

\* Drop that clears the bar's line and keeps the fields
DropLogger_KeepFieldsMut(bar, count, scr, t) ==
    [progress_bar |-> bar, line_count |-> count, screen |-> AfterTake(bar, scr)]

\* impl Drop for Logger on the fields and the terminal; t is
\* Term::stderr().is_term() at the drop
DropLogger(bar, count, scr, t) ==
    LET taken == AfterTake(bar, scr)
    IN  [progress_bar |-> None,
         line_count   |-> IF count > 0 THEN 0 ELSE count,
         screen       |-> IF count > 0 /\ t THEN ClearLastLines(taken, count)
                          ELSE taken]

LoggerDrop ==
    /\ LoggerCallable
    /\ \E t \in BOOLEAN :
         LET after == DropLogger(progress_bar, line_count, screen, t)
         IN  /\ progress_bar' = after.progress_bar
             /\ line_count' = after.line_count
             /\ screen' = after.screen
    /\ drop_taken' = progress_bar
    /\ last_op' = "drop"
    /\ UNCHANGED <<plVars, geomVars, new_bar, printed, suspend_log, pc, setupVars, failed,
                   child, status, master_open, tx_clone_alive, chan, readerVars,
                   renderVars, termVars, clockVars, joinVars, result>>

----------------------------------------------------------------------------
(* Pure parts of run_subprocess *)

\* stderr_lines.unwrap_or(5)
UnwrapLines(h) == IF h = None THEN DefaultLines ELSE h[1]

\* `stderr_lines as u16`
AsU16(n) == n % U16

\* region_top of the scrolling region, 1-indexed
RegionTop(lines, rows) ==
    IF AsU16(lines) < rows THEN rows - AsU16(lines) + 1 ELSE 1

\* format!("<pty read error: {}>", e).as_bytes(), e an opaque error text
ErrorBytes(e) == <<60>> \o e \o <<62>>
ErrTexts == {<<101>>}

\* SplitFrom that strips the terminator from the lines it completes
RECURSIVE SplitFrom_StripMut(_, _, _, _)
SplitFrom_StripMut(buf, i, lines, cur) ==
    IF i > Len(buf) THEN [lines |-> lines, rest |-> cur]
    ELSE IF buf[i] = NL
         THEN SplitFrom_StripMut(buf, i + 1, Append(lines, cur), <<>>)
         ELSE SplitFrom_StripMut(buf, i + 1, lines, Append(cur, buf[i]))

\* The byte loop of the render task: bytes i.. of buf are still to be scanned,
\* lines are the complete lines found so far, cur is current_line.
RECURSIVE SplitFrom(_, _, _, _)
SplitFrom(buf, i, lines, cur) ==
    IF i > Len(buf) THEN [lines |-> lines, rest |-> cur]
    ELSE LET line == Append(cur, buf[i])
         IN  IF buf[i] = NL
             THEN SplitFrom(buf, i + 1, Append(lines, line), <<>>)
             ELSE SplitFrom(buf, i + 1, lines, line)

SplitLines(buf) == SplitFrom(buf, 1, <<>>, <<>>)

\* PushLine with the eviction test off by one: the ring grows to n + 1 lines
PushLine_OffByOneMut(ring, line, n) ==
    LET grown == Append(ring, line)
    IN  IF Len(grown) > n + 1 THEN Tail(grown) ELSE grown

\* output_ring.push(line); if output_ring.len() > stderr_lines { remove(0) }
PushLine(ring, line, n) ==
    LET grown == Append(ring, line)
    IN  IF Len(grown) > n THEN Tail(grown) ELSE grown

RECURSIVE PushLines(_, _, _)
PushLines(ring, lines, n) ==
    IF lines = <<>> THEN ring
    ELSE PushLines(PushLine(ring, Head(lines), n), Tail(lines), n)

\* One repaint: cursor to region_top, clear, every line of the ring in order
Repaint(ring, top) ==
    <<<<"render", "move", top>>, <<"render", "clear">>>>
    \o [k \in 1..Len(ring) |-> <<"render", "write", ring[k]>>]

\* Ingest that scans the chunk alone and forgets the bytes held over from
\* earlier chunks
Ingest_ForgetMut(buf, ring, chunk, n) ==
    LET split == SplitLines(chunk)
    IN  [buffer |-> split.rest,
         ring   |-> PushLines(ring, split.lines, n),
         lines  |-> split.lines]

\* Ingest that also pushes the unterminated rest into the ring
Ingest_PushTailMut(buf, ring, chunk, n) ==
    LET split == SplitLines(buf \o chunk)
        all == IF split.rest = <<>> THEN split.lines
               ELSE Append(split.lines, split.rest)
    IN  [buffer |-> split.rest,
         ring   |-> PushLines(ring, all, n),
         lines  |-> all]

\* The body of the receive loop for one chunk, on the renderer's state
Ingest(buf, ring, chunk, n) ==
    LET split == SplitLines(buf \o chunk)
    IN  [buffer |-> split.rest,
         ring   |-> PushLines(ring, split.lines, n),
         lines  |-> split.lines]

\* Finalize that drops the unterminated rest instead of pushing it
Finalize_DropTailMut(buf, ring, n) == [ring |-> ring, lines |-> <<>>]

\* The code after the receive loop, on the renderer's state
Finalize(buf, ring, n) ==
    IF buf # <<>> THEN [ring |-> PushLine(ring, buf, n), lines |-> <<buf>>]
    ELSE [ring |-> ring, lines |-> <<>>]

\* SubprocessOutput and its accessors
SubprocessOutput(out, err, code) ==
    [stdout |-> out, stderr |-> err, exit_code |-> code]

Success(o) == o.exit_code = 0

Ok(v) == [kind |-> "Ok", value |-> v]
Err(context) == [kind |-> "Err", value |-> context]
Pending == [kind |-> "Pending", value |-> "none"]

ChannelClosed == ~tx_alive /\ ~tx_clone_alive

\* Stream that sends the lines of the window to standard output
Stream_WindowToStdoutMut(e) == IF e[2] = "write" THEN "stdout" ELSE "stderr"

\* The stream a terminal write goes to: the four primitives of scrolling.rs
\* and the renderer's write_all all take std::io::stderr()
Stream(e) ==
    CASE e[2] = "set"   -> "stderr"
      [] e[2] = "reset" -> "stderr"
      [] e[2] = "clear" -> "stderr"
      [] e[2] = "move"  -> "stderr"
      [] e[2] = "write" -> "stderr"

Written(ops, stream) == SelectSeq(ops, LAMBDA e : Stream(e) = stream)

\* The run performs the terminal writes ops, in order
Emit(ops) ==
    /\ term_out' = term_out \o Written(ops, "stderr")
    /\ stdout_out' = stdout_out \o Written(ops, "stdout")

----------------------------------------------------------------------------
(* The control flow of run_subprocess *)

\* Logger::new(), and no run yet
InitProgram ==
    /\ progress_bar = None
    /\ line_count = 0
    /\ new_bar = None
    /\ screen = <<>>
    /\ printed = <<>>
    /\ last_op = "new"
    /\ suspend_log = None
    /\ drop_taken = None
    /\ pc = "idle"
    /\ had_progress = FALSE
    /\ stdout_out = <<>>
    /\ stderr_lines = DefaultLines
    /\ is_term = FALSE
    /\ size_failed = FALSE
    /\ term_rows = DefaultRows
    /\ region_top = 1
    /\ failed = "none"
    /\ child = "none"
    /\ status = None
    /\ master_open = FALSE
    /\ tx_alive = FALSE
    /\ tx_clone_alive = FALSE
    /\ chan = <<>>
    /\ collected = <<>>
    /\ reader = "none"
    /\ full_output = <<>>
    /\ read_error = FALSE
    /\ render = "none"
    /\ output_buffer = <<>>
    /\ output_ring = <<>>
    /\ term_out = <<>>
    /\ waited = 0
    /\ reader_wait = 0
    /\ render_wait = 0
    /\ reader_timed_out = FALSE
    /\ render_timed_out = FALSE
    /\ snapshot = None
    /\ pty_output = <<>>
    /\ was_term = FALSE
    /\ final_ring = <<>>
    /\ result = Pending
    /\ reads = <<>>
    /\ sent = <<>>
    /\ delivered = <<>>
    /\ pushed = <<>>

\* No ProgressLogger is in use
NoProgressLogger ==
    /\ quiet = FALSE
    /\ progress = None
    /\ pl_stdout = <<>>
    /\ pl_last = None

Init ==
    /\ InitProgram
    /\ NoProgressLogger
    /\ geom_in = None
    /\ geom_out = None
    /\ call_in = None
    /\ call_out = None

\* What get_terminal_size() may return: Some(rows) for Ok, None for Err
SizeResults == {None} \cup {Some(r) : r \in RealRows}

\* An early `?` return: the locals of the function are dropped
ReturnErr(step, context) ==
    /\ failed' = step
    /\ result' = Err(context)
    /\ pc' = "returned"
    /\ master_open' = FALSE
    /\ tx_clone_alive' = FALSE

\* Lines 319-323: the rows of the terminal, 24 when stderr is no terminal or
\* the size query fails
TermRows(t, sz) ==
    IF t THEN (IF sz # None THEN sz[1] ELSE DefaultRows) ELSE DefaultRows

\* Lines 308-333: clear the status line, detect the terminal, compute the region
Start ==
    /\ LoggerCallable
    /\ had_progress' = (progress_bar # None)
    /\ screen' = AfterTake(progress_bar, screen)
    /\ last_op' = "run_subprocess"
    /\ \E h \in WindowHeights, t \in BOOLEAN, sz \in SizeResults :
         LET n == UnwrapLines(h)
             rows == TermRows(t, sz)
             cleared == ClearStatus(progress_bar, line_count)
         IN  /\ t \/ sz = None
             /\ progress_bar' = cleared.progress_bar
             /\ line_count' = cleared.line_count
             /\ stderr_lines' = n
             /\ is_term' = t
             /\ size_failed' = (t /\ sz = None)
             /\ term_rows' = rows
             /\ region_top' = RegionTop(n, rows)
    /\ pc' = "setup_term"
    /\ UNCHANGED <<plVars, geomVars, drop_taken, new_bar, printed, suspend_log, failed, child, status, master_open, tx_clone_alive, chan,
                   readerVars, renderVars, termVars, clockVars, joinVars, result>>

\* Lines 335-341, both writes succeed (or stderr is no terminal)
SetupTerminal ==
    /\ pc = "setup_term"
    /\ Emit(IF is_term
            THEN <<<<"run", "set", region_top, term_rows>>,
                   <<"run", "move", region_top>>>>
            ELSE <<>>)
    /\ pc' = "openpty"
    /\ UNCHANGED <<plVars, geomVars, loggerVars, setupVars, failed, child, status, master_open,
                   tx_clone_alive, chan, readerVars, renderVars, clockVars,
                   joinVars, result>>

\* Line 337-338: the write or the flush of the region sequence fails
SetRegionFails ==
    /\ pc = "setup_term"
    /\ is_term
    /\ \E emitted \in BOOLEAN :
         Emit(IF emitted THEN <<<<"run", "set", region_top, term_rows>>>> ELSE <<>>)
    /\ ReturnErr("set_scrolling_region", "Failed to set scrolling region")
    /\ UNCHANGED <<plVars, geomVars, loggerVars, setupVars, child, status, chan, readerVars,
                   renderVars, clockVars, joinVars>>

\* MoveCursorFails with the error swallowed (`.ok()`), the run goes on
MoveCursorFails_IgnoredMut ==
    /\ pc = "setup_term"
    /\ is_term
    /\ Emit(<<<<"run", "set", region_top, term_rows>>>>)
    /\ failed' = "move_cursor_to_line"
    /\ pc' = "openpty"
    /\ UNCHANGED <<plVars, geomVars, loggerVars, setupVars, child, status, master_open,
                   tx_clone_alive, chan, readerVars, renderVars, clockVars,
                   joinVars, result>>

\* Line 340: the region is set, the cursor move fails
MoveCursorFails ==
    /\ pc = "setup_term"
    /\ is_term
    /\ \E emitted \in BOOLEAN :
         Emit(<<<<"run", "set", region_top, term_rows>>>>
              \o (IF emitted THEN <<<<"run", "move", region_top>>>> ELSE <<>>))
    /\ ReturnErr("move_cursor_to_line", "Failed to move cursor to scrolling region")
    /\ UNCHANGED <<plVars, geomVars, loggerVars, setupVars, child, status, chan, readerVars,
                   renderVars, clockVars, joinVars>>

\* Lines 344-356: build the command, open the PTY
OpenPty ==
    /\ pc = "openpty"
    /\ pc' = "spawn"
    /\ master_open' = TRUE
    /\ UNCHANGED <<plVars, geomVars, loggerVars, setupVars, failed, child, status, tx_clone_alive,
                   chan, readerVars, renderVars, termVars, clockVars, joinVars,
                   result>>

OpenPtyFails ==
    /\ pc = "openpty"
    /\ ReturnErr("openpty", "Failed to create PTY")
    /\ UNCHANGED <<plVars, geomVars, loggerVars, setupVars, child, status, chan, readerVars,
                   renderVars, termVars, clockVars, joinVars>>

\* Lines 359-362
SpawnCommand ==
    /\ pc = "spawn"
    /\ child' = "running"
    /\ pc' = "start_tasks"
    /\ UNCHANGED <<plVars, geomVars, loggerVars, setupVars, failed, status, master_open,
                   tx_clone_alive, chan, readerVars, renderVars, termVars,
                   clockVars, joinVars, result>>

\* SpawnFails with the error swallowed, the tasks are started all the same
SpawnFails_IgnoredMut ==
    /\ pc = "spawn"
    /\ failed' = "spawn_command"
    /\ pc' = "start_tasks"
    /\ UNCHANGED <<plVars, geomVars, loggerVars, setupVars, child, status, master_open,
                   tx_clone_alive, chan, readerVars, renderVars, termVars,
                   clockVars, joinVars, result>>

SpawnFails ==
    /\ pc = "spawn"
    /\ ReturnErr("spawn_command", "Failed to spawn command in PTY")
    /\ UNCHANGED <<plVars, geomVars, loggerVars, setupVars, child, status, chan, readerVars,
                   renderVars, termVars, clockVars, joinVars>>

\* StartTasks that gives up the master as soon as the tasks run
StartTasks_DropsMasterMut ==
    /\ pc = "start_tasks"
    /\ tx_alive' = TRUE
    /\ tx_clone_alive' = TRUE
    /\ reader' = "running"
    /\ render' = "running"
    /\ master_open' = FALSE
    /\ pc' = "wait_child"
    /\ UNCHANGED <<plVars, geomVars, loggerVars, setupVars, failed, child, status,
                   chan, collected, full_output, read_error, reads, sent,
                   output_buffer, output_ring, delivered, pushed, termVars,
                   clockVars, joinVars, result>>

\* Lines 366-491: clone the reader, make the channel, spawn both tasks
StartTasks ==
    /\ pc = "start_tasks"
    /\ tx_alive' = TRUE
    /\ tx_clone_alive' = TRUE
    /\ reader' = "running"
    /\ render' = "running"
    /\ pc' = "wait_child"
    /\ UNCHANGED <<plVars, geomVars, loggerVars, setupVars, failed, child, status, master_open,
                   chan, collected, full_output, read_error, reads, sent,
                   output_buffer, output_ring, delivered, pushed, termVars,
                   clockVars, joinVars, result>>

\* Lines 366-369: try_clone_reader fails, the child is already running
CloneReaderFails ==
    /\ pc = "start_tasks"
    /\ ReturnErr("try_clone_reader", "Failed to clone PTY reader")
    /\ UNCHANGED <<plVars, geomVars, loggerVars, setupVars, child, status, chan, readerVars,
                   renderVars, termVars, clockVars, joinVars>>

\* Lines 494-497: child.wait() returns the exit status
ChildExit ==
    /\ pc = "wait_child"
    /\ \E c \in ExitCodes : status' = Some(c)
    /\ child' = "exited"
    /\ pc' = "drop_master"
    /\ UNCHANGED <<plVars, geomVars, loggerVars, setupVars, failed, master_open, tx_clone_alive,
                   chan, readerVars, renderVars, termVars, clockVars, joinVars,
                   result>>

\* Lines 494-497: joining or waiting fails
WaitFails ==
    /\ pc = "wait_child"
    /\ ReturnErr("wait", "Failed to wait for subprocess")
    /\ UNCHANGED <<plVars, geomVars, loggerVars, setupVars, child, status, chan, readerVars,
                   renderVars, termVars, clockVars, joinVars>>

\* Line 501
DropMaster ==
    /\ pc = "drop_master"
    /\ master_open' = FALSE
    /\ pc' = "join_reader"
    /\ waited' = 0
    /\ UNCHANGED <<plVars, geomVars, loggerVars, setupVars, failed, child, status, tx_clone_alive,
                   chan, readerVars, renderVars, termVars, reader_wait,
                   render_wait, joinVars, result>>

\* Limit with the reader's duration used for both joins
Limit_SameMut == ReadTimeoutSecs

\* The timer of the join the control flow is waiting in
Limit == IF pc = "join_reader" THEN ReadTimeoutSecs ELSE RenderTimeoutSecs
Joined == IF pc = "join_reader" THEN reader ELSE render

\* Tick that also runs while the control flow waits for the child
Tick_DuringWaitMut ==
    /\ pc \in {"wait_child", "join_reader", "join_render"}
    /\ Joined # "done"
    /\ waited < Limit
    /\ waited' = Min(waited + TickSecs, Limit)
    /\ UNCHANGED <<plVars, geomVars, loggerVars, pc, setupVars, failed, child, status, master_open,
                   tx_clone_alive, chan, readerVars, renderVars, termVars,
                   reader_wait, render_wait, joinVars, result>>

\* Time passes while a timed join waits for a task that has not finished
Tick ==
    /\ pc \in {"join_reader", "join_render"}
    /\ Joined # "done"
    /\ waited < Limit
    /\ waited' = Min(waited + TickSecs, Limit)
    /\ UNCHANGED <<plVars, geomVars, loggerVars, pc, setupVars, failed, child, status, master_open,
                   tx_clone_alive, chan, readerVars, renderVars, termVars,
                   reader_wait, render_wait, joinVars, result>>

\* Lines 505-507: the reader task finished within the timeout
JoinReader ==
    /\ pc = "join_reader"
    /\ reader = "done"
    /\ pty_output' = full_output
    /\ reader_wait' = waited
    /\ waited' = 0
    /\ pc' = "join_render"
    /\ UNCHANGED <<plVars, geomVars, loggerVars, setupVars, failed, child, status, master_open,
                   tx_clone_alive, chan, readerVars, renderVars, termVars,
                   render_wait, reader_timed_out, render_timed_out, snapshot,
                   was_term, final_ring, result>>

\* Lines 508-515: the timeout elapsed, the reader is abandoned
ReaderTimeout ==
    /\ pc = "join_reader"
    /\ reader # "done"
    /\ waited = ReadTimeoutSecs
    /\ tx_clone_alive' = FALSE
    /\ snapshot' = Some(collected)
    /\ pty_output' = collected
    /\ reader_timed_out' = TRUE
    /\ reader_wait' = waited
    /\ waited' = 0
    /\ pc' = "join_render"
    /\ UNCHANGED <<plVars, geomVars, loggerVars, setupVars, failed, child, status, master_open,
                   chan, readerVars, renderVars, termVars, render_wait,
                   render_timed_out, was_term, final_ring, result>>

\* Lines 518-520: the render task finished within the timeout
JoinRender ==
    /\ pc = "join_render"
    /\ render = "done"
    /\ final_ring' = output_ring
    /\ was_term' = is_term
    /\ render_wait' = waited
    /\ pc' = "final_rendering"
    /\ UNCHANGED <<plVars, geomVars, loggerVars, setupVars, failed, child, status, master_open,
                   tx_clone_alive, chan, readerVars, renderVars, termVars,
                   waited, reader_wait, reader_timed_out, render_timed_out,
                   snapshot, pty_output, result>>

\* Lines 521-525: the timeout elapsed, the render task is abandoned
RenderTimeout ==
    /\ pc = "join_render"
    /\ render # "done"
    /\ waited = RenderTimeoutSecs
    /\ final_ring' = <<>>
    /\ was_term' = is_term
    /\ render_timed_out' = TRUE
    /\ render_wait' = waited
    /\ pc' = "final_rendering"
    /\ UNCHANGED <<plVars, geomVars, loggerVars, setupVars, failed, child, status, master_open,
                   tx_clone_alive, chan, readerVars, renderVars, termVars,
                   waited, reader_wait, reader_timed_out, snapshot, pty_output,
                   result>>

\* FinalOps that clears the region whatever the exit code
FinalOps_AlwaysClearMut(term, code) ==
    IF ~term THEN <<>> ELSE <<<<"run", "clear">>>>

\* Lines 533-546: the last terminal action of the run, chosen by the exit code
FinalOps(term, code) ==
    IF ~term THEN <<>>
    ELSE IF code = 0 THEN <<<<"run", "clear">>>>
    ELSE <<<<"run", "reset">>>>

FinalRendering ==
    /\ pc = "final_rendering"
    /\ Emit(FinalOps(was_term, status[1]))
    /\ pc' = "return"
    /\ UNCHANGED <<plVars, geomVars, loggerVars, setupVars, failed, child, status, master_open,
                   tx_clone_alive, chan, readerVars, renderVars, clockVars,
                   joinVars, result>>

\* MakeOutput that fills stdout and stderr from the same capture
MakeOutput_BothStreamsMut(bytes, code) == SubprocessOutput(bytes, bytes, code)

\* MakeOutput that reports every failure as exit code 1
MakeOutput_NormaliseMut(bytes, code) ==
    SubprocessOutput(<<>>, bytes, IF code = 0 THEN 0 ELSE 1)

\* Lines 528-531 and 548-552: the value returned
MakeOutput(bytes, code) == SubprocessOutput(<<>>, bytes, code)

\* Lines 548-553: return Ok, the locals (tx_clone among them) are dropped
Return ==
    /\ pc = "return"
    /\ result' = Ok(MakeOutput(pty_output, status[1]))
    /\ tx_clone_alive' = FALSE
    /\ pc' = "returned"
    /\ UNCHANGED <<plVars, geomVars, loggerVars, setupVars, failed, child, status, master_open,
                   chan, readerVars, renderVars, termVars, clockVars, joinVars>>

----------------------------------------------------------------------------
(* The PTY reader, lines 385-423 *)

\* Record that leaves the shared fallback buffer out
Record_SkipSharedMut(bytes) ==
    /\ full_output' = full_output \o bytes
    /\ collected' = collected
    /\ chan' = Append(chan, bytes)
    /\ sent' = sent \o bytes

\* Record that overwrites the accumulator with the chunk instead of extending it
Record_OverwriteMut(bytes) ==
    /\ full_output' = bytes
    /\ collected' = collected \o bytes
    /\ chan' = Append(chan, bytes)
    /\ sent' = sent \o bytes

\* What one loop iteration appends to the accumulator, to the shared buffer
\* and to the channel
Record(bytes) ==
    /\ full_output' = full_output \o bytes
    /\ collected' = collected \o bytes
    /\ chan' = Append(chan, bytes)
    /\ sent' = sent \o bytes

\* Lines 393-401: Ok(n), n > 0
ReadChunk ==
    /\ reader = "running"
    /\ \E c \in Chunks :
         /\ Len(reads) + Len(c) <= MaxStream
         /\ Record(c)
         /\ reads' = reads \o c
    /\ UNCHANGED <<plVars, geomVars, loggerVars, pc, setupVars, failed, child, status, master_open,
                   tx_alive, tx_clone_alive, reader, read_error, renderVars,
                   termVars, clockVars, joinVars, result>>

\* Lines 392 and 416-419: Ok(0), leave the loop, drop the sender
ReadEof ==
    /\ reader = "running"
    /\ reader' = "done"
    /\ tx_alive' = FALSE
    /\ UNCHANGED <<plVars, geomVars, loggerVars, pc, setupVars, failed, child, status, master_open,
                   tx_clone_alive, chan, collected, full_output, read_error,
                   reads, sent, renderVars, termVars, clockVars, joinVars, result>>

\* ReadError without the `break`: the marker is recorded and the loop goes on
ReadError_NoBreakMut ==
    /\ reader = "running"
    /\ ~read_error
    /\ \E e \in ErrTexts : Record(ErrorBytes(e))
    /\ read_error' = TRUE
    /\ UNCHANGED <<plVars, geomVars, loggerVars, pc, setupVars, failed, child, status, master_open,
                   tx_alive, tx_clone_alive, reader, reads, renderVars, termVars,
                   clockVars, joinVars, result>>

\* Lines 402-412 and 416-419: Err(e), record the marker, leave the loop
ReadError ==
    /\ reader = "running"
    /\ \E e \in ErrTexts : Record(ErrorBytes(e))
    /\ read_error' = TRUE
    /\ reader' = "done"
    /\ tx_alive' = FALSE
    /\ UNCHANGED <<plVars, geomVars, loggerVars, pc, setupVars, failed, child, status, master_open,
                   tx_clone_alive, reads, renderVars, termVars, clockVars,
                   joinVars, result>>

----------------------------------------------------------------------------
(* The render task, lines 430-491 *)

\* RenderChunk that repaints whether or not standard error is a terminal
RenderChunk_NoGateMut ==
    /\ render = "running"
    /\ chan # <<>>
    /\ LET step == Ingest(output_buffer, output_ring, Head(chan), stderr_lines)
       IN  /\ output_buffer' = step.buffer
           /\ output_ring' = step.ring
           /\ pushed' = pushed \o step.lines
           /\ Emit(IF step.ring # <<>>
                   THEN Repaint(step.ring, region_top)
                   ELSE <<>>)
    /\ delivered' = delivered \o Head(chan)
    /\ chan' = Tail(chan)
    /\ UNCHANGED <<plVars, geomVars, loggerVars, pc, setupVars, failed, child, status, master_open,
                   tx_clone_alive, readerVars, render, clockVars, joinVars, result>>

\* Lines 431-470: rx.recv() yields a chunk
RenderChunk ==
    /\ render = "running"
    /\ chan # <<>>
    /\ LET step == Ingest(output_buffer, output_ring, Head(chan), stderr_lines)
       IN  /\ output_buffer' = step.buffer
           /\ output_ring' = step.ring
           /\ pushed' = pushed \o step.lines
           /\ Emit(IF is_term /\ step.ring # <<>>
                   THEN Repaint(step.ring, region_top)
                   ELSE <<>>)
    /\ delivered' = delivered \o Head(chan)
    /\ chan' = Tail(chan)
    /\ UNCHANGED <<plVars, geomVars, loggerVars, pc, setupVars, failed, child, status, master_open,
                   tx_clone_alive, readerVars, render, clockVars, joinVars, result>>

\* Lines 472-490: rx.recv() yields None, the rest of the buffer becomes a line
RenderFinalize ==
    /\ render = "running"
    /\ chan = <<>>
    /\ ChannelClosed
    /\ LET step == Finalize(output_buffer, output_ring, stderr_lines)
       IN  /\ output_ring' = step.ring
           /\ pushed' = pushed \o step.lines
           /\ Emit(IF is_term /\ output_buffer # <<>>
                   THEN Repaint(step.ring, region_top)
                   ELSE <<>>)
    /\ output_buffer' = <<>>
    /\ render' = "done"
    /\ UNCHANGED <<plVars, geomVars, loggerVars, pc, setupVars, failed, child, status, master_open,
                   tx_clone_alive, chan, readerVars, delivered, clockVars,
                   joinVars, result>>

----------------------------------------------------------------------------

Next ==
    \/ LoggerStatus \/ LoggerProgress \/ LoggerProgressStore
    \/ Start
    \/ SetupTerminal \/ SetRegionFails \/ MoveCursorFails
    \/ OpenPty \/ OpenPtyFails
    \/ SpawnCommand \/ SpawnFails
    \/ StartTasks \/ CloneReaderFails
    \/ ChildExit \/ WaitFails
    \/ DropMaster
    \/ Tick
    \/ JoinReader \/ ReaderTimeout
    \/ JoinRender \/ RenderTimeout
    \/ FinalRendering \/ Return
    \/ ReadChunk \/ ReadEof \/ ReadError
    \/ RenderChunk \/ RenderFinalize

Spec == Init /\ [][Next]_vars

----------------------------------------------------------------------------
(* The Logger on its own: every sequence of its methods up to the drop *)

LoggerNext ==
    \/ LoggerStatus \/ LoggerProgress \/ LoggerProgressStore
    \/ LoggerPrint
    \/ LoggerClearStatus \/ LoggerFinish
    \/ LoggerSuspend
    \/ LoggerSetProgressMessage \/ LoggerRunSubprocess
    \/ LoggerDrop

SpecLogger == Init /\ [][LoggerNext]_vars

----------------------------------------------------------------------------
(* The region geometry on its own: lines 308 and 325-333 applied to window *)
(* heights over the whole range of usize and to the rows a terminal reports *)

GeomHeights ==
    {None} \cup {Some(n) : n \in {1, 2, 3, 5, 24, 25, 65535, 65536, 65537,
                                   65560, 131072}}
GeomRows == {1, 2, 3, 24, 25, 65535}

GeomInit ==
    /\ InitProgram
    /\ NoProgressLogger
    /\ geom_in \in {Some([height |-> h, rows |-> r]) : h \in GeomHeights, r \in GeomRows}
    /\ geom_out = None
    /\ call_in = None
    /\ call_out = None

ComputeRegion ==
    /\ geom_in # None
    /\ geom_out = None
    /\ LET n == UnwrapLines(geom_in[1].height)
           rows == geom_in[1].rows
       IN  geom_out' = Some([region_top |-> RegionTop(n, rows), region_bottom |-> rows])
    /\ UNCHANGED <<plVars, geom_in, call_in, call_out, loggerVars, pc, setupVars, failed, child, status,
                   master_open, tx_clone_alive, chan, readerVars, renderVars,
                   termVars, clockVars, joinVars, result>>

GeomNext == ComputeRegion

SpecGeom == GeomInit /\ [][GeomNext]_vars

----------------------------------------------------------------------------
(* The helpers of tty.rs, common.rs and scrolling.rs, each applied once to *)
(* arguments and an environment drawn from small sets                      *)

\* std::env::var: Ok(value), or Err for an unset or a non-unicode variable
EnvResults(values) ==
    {Ok(v) : v \in values} \cup {Err("NotPresent"), Err("NotUnicode")}

WhenValues == {"never", "always", "auto", "", "NEVER", "Always", "on"}

\* ShouldShowProgress that takes every unknown value for "never"
ShouldShowProgress_UnknownOffMut(env, tty) ==
    LET when == IF env.kind = "Ok" THEN env.value ELSE "auto"
    IN  CASE when = "always" -> TRUE
          [] when = "auto"   -> tty
          [] OTHER           -> FALSE

\* tty::should_show_progress; env is env::var("CARGO_TERM_PROGRESS_WHEN"),
\* tty is atty::is(Stream::Stdout)
ShouldShowProgress(env, tty) ==
    LET when == IF env.kind = "Ok" THEN env.value ELSE "auto"
    IN  CASE when = "never"  -> FALSE
          [] when = "always" -> TRUE
          [] when = "auto"   -> tty
          [] OTHER           -> tty

\* Strings of detect_repo are sequences of characters
SshPrefix == <<"g", "i", "t", "@", "g", "i", "t", "h", "u", "b", ".", "c", "o", "m", ":">>
HttpsPrefix == <<"h", "t", "t", "p", "s", ":", "/", "/", "g", "i", "t", "h", "u", "b", ".", "c", "o", "m", "/">>
DotGit == <<".", "g", "i", "t">>
Slash == "/"

\* str::strip_prefix and str::strip_suffix: Some(rest) or None
StripPrefix(s, p) ==
    IF Len(p) <= Len(s) /\ SubSeq(s, 1, Len(p)) = p
    THEN Some(SubSeq(s, Len(p) + 1, Len(s)))
    ELSE None

StripSuffix(s, p) ==
    IF Len(p) <= Len(s) /\ SubSeq(s, Len(s) - Len(p) + 1, Len(s)) = p
    THEN Some(SubSeq(s, 1, Len(s) - Len(p)))
    ELSE None

\* str::split('/').collect(): the parts between the separators, empty parts
\* included; the empty string gives one empty part
RECURSIVE SplitAt(_, _, _, _)
SplitAt(s, i, parts, cur) ==
    IF i > Len(s) THEN Append(parts, cur)
    ELSE IF s[i] = Slash THEN SplitAt(s, i + 1, Append(parts, cur), <<>>)
    ELSE SplitAt(s, i + 1, parts, Append(cur, s[i]))

Split(s) == SplitAt(s, 1, <<>>, <<>>)

\* Values of GITHUB_REPOSITORY, and what the git repository of "." may offer
RepoValues ==
    {<<"o", "/", "r">>,
     <<"o">>,
     <<"o", "/", "r", "/", "x">>,
     <<>>,
     <<"/">>,
     <<"o", "/">>,
     <<"/", "r">>}

RemoteUrls ==
    {SshPrefix \o <<"g", "/", "h">> \o DotGit,
     SshPrefix \o <<"g", "/", "h">>,
     SshPrefix \o <<"g">>,
     HttpsPrefix \o <<"g", "/", "h">> \o DotGit,
     HttpsPrefix \o <<"g", "/", "h", "/", "x">>,
     HttpsPrefix \o <<"g">> \o DotGit,
     <<"h", "t", "t", "p", "s", ":", "/", "/", "g", "i", "t", "l", "a", "b", ".", "c", "o", "m", "/", "g", "/", "h">>}

GitOutcomes ==
    {[kind |-> k, url |-> <<>>] :
        k \in {"discover_fails", "find_remote_fails", "no_default_remote", "url_fails"}}
    \cup {[kind |-> "url", url |-> u] : u \in RemoteUrls}

Bail ==
    Err("Could not detect GitHub repository. Set GITHUB_REPOSITORY or use --owner/--repo flags")

\* Lines 36-40 and 42-46: owner and repo from what follows the prefix
FromRest(rest) ==
    LET stripped == StripSuffix(rest, DotGit)
        rest_trimmed == IF stripped # None THEN stripped[1] ELSE rest
        parts == Split(rest_trimmed)
    IN  IF Len(parts) >= 2 THEN Some(<<parts[1], parts[2]>>) ELSE None

\* Lines 22-51: the git remote of the repository at "."
FromGit(git) ==
    CASE git.kind = "discover_fails"    -> Err("Failed to discover git repository")
      [] git.kind = "find_remote_fails" -> Err("Failed to find default remote")
      [] git.kind = "no_default_remote" -> Err("No default remote found")
      [] git.kind = "url_fails"         -> Err("Failed to get remote URL")
      [] git.kind = "url" ->
           LET ssh == StripPrefix(git.url, SshPrefix)
               https == StripPrefix(git.url, HttpsPrefix)
               found == IF ssh # None THEN FromRest(ssh[1])
                        ELSE IF https # None THEN FromRest(https[1])
                        ELSE None
           IN  IF found # None THEN Ok(found[1]) ELSE Bail

\* DetectRepo that takes a variable with two parts or more
DetectRepo_AtLeastTwoMut(env, git) ==
    IF env.kind = "Ok" /\ Len(Split(env.value)) >= 2
    THEN [result |-> Ok(<<Split(env.value)[1], Split(env.value)[2]>>), git |-> FALSE]
    ELSE [result |-> FromGit(git), git |-> TRUE]

\* common::detect_repo; env is env::var("GITHUB_REPOSITORY"), git is what the
\* repository at "." offers; the field git tells whether git was consulted
DetectRepo(env, git) ==
    IF env.kind = "Ok" /\ Len(Split(env.value)) = 2
    THEN [result |-> Ok(<<Split(env.value)[1], Split(env.value)[2]>>), git |-> FALSE]
    ELSE [result |-> FromGit(git), git |-> TRUE]

Names == {"o1", "o2"}
OptNames == {None} \cup {Some(n) : n \in Names}

\* What detect_repo() may return to get_owner_repo
DetectResults ==
    {Ok(<<"env-owner", "env-repo">>),
     Err("Could not detect GitHub repository. Set GITHUB_REPOSITORY or use --owner/--repo flags")}

\* GetOwnerRepo that fills a missing argument from detect_repo
GetOwnerRepo_FillMut(owner, repo, detect) ==
    IF owner # None /\ repo # None
    THEN [result |-> Ok(<<owner[1], repo[1]>>), detected |-> FALSE]
    ELSE [result |-> detect, detected |-> TRUE]

\* common::get_owner_repo; detect is what detect_repo() returns if called,
\* detected tells whether it was called
GetOwnerRepo(owner, repo, detect) ==
    IF owner # None /\ repo # None
    THEN [result |-> Ok(<<owner[1], repo[1]>>), detected |-> FALSE]
    ELSE IF owner # None \/ repo # None
    THEN [result   |-> Err("Both --owner and --repo must be provided together"),
          detected |-> FALSE]
    ELSE [result |-> detect, detected |-> TRUE]

\* Decimal that pads the number to three digits
Decimal_PaddedMut(n) ==
    <<48 + ((n \div 100) % 10), 48 + ((n \div 10) % 10), 48 + (n % 10)>>

\* `{}` of a u16: its decimal digits as ASCII bytes, most significant first
RECURSIVE Decimal(_)
Decimal(n) ==
    IF n < 10 THEN <<48 + n>> ELSE Decimal(n \div 10) \o <<48 + (n % 10)>>

\* The bytes the four primitives of scrolling.rs write
SetScrollingRegionBytes(top, bottom) ==
    <<27, 91>> \o Decimal(top) \o <<59>> \o Decimal(bottom) \o <<114>>
ResetScrollingRegionBytes == <<27, 91, 114>>
ClearScrollingRegionBytes == <<27, 91, 74>>
MoveCursorToLineBytes(line) == <<27, 91>> \o Decimal(line) \o <<59, 49, 72>>

U16Samples == {0, 1, 7, 10, 24, 100, 65535}

HelperInputs ==
    {[fn |-> "should_show_progress", env |-> e, tty |-> t] :
        e \in EnvResults(WhenValues), t \in BOOLEAN}
    \cup {[fn |-> "get_owner_repo", owner |-> o, repo |-> r, detect |-> d] :
        o \in OptNames, r \in OptNames, d \in DetectResults}
    \cup {[fn |-> "detect_repo", github_repository |-> e, git |-> g] :
        e \in EnvResults(RepoValues), g \in GitOutcomes}
    \cup {[fn |-> "set_scrolling_region", top |-> a, bottom |-> b] :
        a \in U16Samples, b \in U16Samples}
    \cup {[fn |-> "move_cursor_to_line", line |-> a] : a \in U16Samples}
    \cup {[fn |-> "reset_scrolling_region"], [fn |-> "clear_scrolling_region"]}

HelperInit ==
    /\ InitProgram
    /\ NoProgressLogger
    /\ geom_in = None
    /\ geom_out = None
    /\ call_in \in {Some(i) : i \in HelperInputs}
    /\ call_out = None

\* The helper named by call_in has not been called yet
Callable(fn) == call_in # None /\ call_in[1].fn = fn /\ call_out = None

CallShouldShowProgress ==
    /\ Callable("should_show_progress")
    /\ call_out' = Some(ShouldShowProgress(call_in[1].env, call_in[1].tty))
    /\ UNCHANGED <<plVars, geom_in, geom_out, call_in, loggerVars, pc, setupVars, failed,
                   child, status, master_open, tx_clone_alive, chan, readerVars,
                   renderVars, termVars, clockVars, joinVars, result>>

CallGetOwnerRepo ==
    /\ Callable("get_owner_repo")
    /\ call_out' = Some(GetOwnerRepo(call_in[1].owner, call_in[1].repo,
                                     call_in[1].detect))
    /\ UNCHANGED <<plVars, geom_in, geom_out, call_in, loggerVars, pc, setupVars, failed,
                   child, status, master_open, tx_clone_alive, chan, readerVars,
                   renderVars, termVars, clockVars, joinVars, result>>

CallDetectRepo ==
    /\ Callable("detect_repo")
    /\ call_out' = Some(DetectRepo(call_in[1].github_repository, call_in[1].git))
    /\ UNCHANGED <<plVars, geom_in, geom_out, call_in, loggerVars, pc, setupVars, failed,
                   child, status, master_open, tx_clone_alive, chan, readerVars,
                   renderVars, termVars, clockVars, joinVars, result>>

CallSetScrollingRegion ==
    /\ Callable("set_scrolling_region")
    /\ call_out' = Some(SetScrollingRegionBytes(call_in[1].top, call_in[1].bottom))
    /\ UNCHANGED <<plVars, geom_in, geom_out, call_in, loggerVars, pc, setupVars, failed,
                   child, status, master_open, tx_clone_alive, chan, readerVars,
                   renderVars, termVars, clockVars, joinVars, result>>

CallResetScrollingRegion ==
    /\ Callable("reset_scrolling_region")
    /\ call_out' = Some(ResetScrollingRegionBytes)
    /\ UNCHANGED <<plVars, geom_in, geom_out, call_in, loggerVars, pc, setupVars, failed,
                   child, status, master_open, tx_clone_alive, chan, readerVars,
                   renderVars, termVars, clockVars, joinVars, result>>

CallClearScrollingRegion ==
    /\ Callable("clear_scrolling_region")
    /\ call_out' = Some(ClearScrollingRegionBytes)
    /\ UNCHANGED <<plVars, geom_in, geom_out, call_in, loggerVars, pc, setupVars, failed,
                   child, status, master_open, tx_clone_alive, chan, readerVars,
                   renderVars, termVars, clockVars, joinVars, result>>

CallMoveCursorToLine ==
    /\ Callable("move_cursor_to_line")
    /\ call_out' = Some(MoveCursorToLineBytes(call_in[1].line))
    /\ UNCHANGED <<plVars, geom_in, geom_out, call_in, loggerVars, pc, setupVars, failed,
                   child, status, master_open, tx_clone_alive, chan, readerVars,
                   renderVars, termVars, clockVars, joinVars, result>>

HelperNext ==
    \/ CallShouldShowProgress
    \/ CallGetOwnerRepo \/ CallDetectRepo
    \/ CallSetScrollingRegion \/ CallResetScrollingRegion
    \/ CallClearScrollingRegion \/ CallMoveCursorToLine

SpecHelpers == HelperInit /\ [][HelperNext]_vars

----------------------------------------------------------------------------
(* The stream as a whole, defined from the positions of its terminators *)

Terminators(b) == {i \in 1..Len(b) : b[i] = NL}

\* The positions at which a line of b starts
LineStarts(b) == {i \in 1..Len(b) : i = 1 \/ (i - 1) \in Terminators(b)}

\* The last position of the line that starts at s: its terminator, or the end
\* of b for the unterminated tail
LineEnd(b, s) ==
    LET ahead == {t \in Terminators(b) : t >= s}
    IN  IF ahead = {} THEN Len(b)
        ELSE CHOOSE t \in ahead : \A u \in ahead : t <= u

RECURSIVE Ascending(_)
Ascending(S) ==
    IF S = {} THEN <<>>
    ELSE LET m == CHOOSE x \in S : \A y \in S : x <= y
         IN  <<m>> \o Ascending(S \ {m})

\* Every line of b in order, a non-empty unterminated tail counting as the last
StreamLines(b) ==
    LET starts == Ascending(LineStarts(b))
    IN  [k \in 1..Len(starts) |-> SubSeq(b, starts[k], LineEnd(b, starts[k]))]

\* The last min(n, Len(s)) elements of s
LastN(s, n) == SubSeq(s, Len(s) - Min(n, Len(s)) + 1, Len(s))

\* The terminal operations issued by the control flow of the run
RunOps == SelectSeq(term_out, LAMBDA e : e[1] = "run")

----------------------------------------------------------------------------
(* Claims *)

\* C1: when no read error occurred and the reader was joined before its
\* timeout, the stderr of the returned output is exactly the bytes the reader
\* read from the PTY, in order, whatever the window height and however many
\* lines the ring evicted.
C1_CapturedOutputComplete ==
    (result.kind = "Ok" /\ ~reader_timed_out /\ ~read_error)
        => result.value.stderr = reads

\* C1 witness: such a run returned after the ring had evicted a line
C1_Witness ==
    /\ result.kind = "Ok"
    /\ ~reader_timed_out
    /\ ~read_error
    /\ Len(pushed) > stderr_lines
    /\ Len(result.value.stderr) > Len(Concat(output_ring))

\* C2: once the renderer has run its finalize step, the ring holds at most N
\* lines and they are the last min(N, total) lines of the delivered stream, an
\* unterminated tail counting as the last line, in the stream's order.
C2_RingIsLastLines ==
    render = "done" =>
        /\ Len(output_ring) <= stderr_lines
        /\ output_ring = LastN(StreamLines(delivered), stderr_lines)

\* C2 witness: finalize ran on a stream of more than N lines ending in an
\* unterminated tail
C2_Witness ==
    /\ render = "done"
    /\ Len(StreamLines(delivered)) > stderr_lines
    /\ delivered[Len(delivered)] # NL

\* C3: the renderer's state after any number of chunks is the state it would
\* have after the same bytes delivered as one chunk, so any two fragmentations
\* of a stream push the same lines and end with the same ring.
C3_FragmentationIndependent ==
    LET one == Ingest(<<>>, <<>>, delivered, stderr_lines)
        fin == Finalize(one.buffer, one.ring, stderr_lines)
    IN  /\ render = "running" =>
              /\ pushed = one.lines
              /\ output_ring = one.ring
              /\ output_buffer = one.buffer
        /\ render = "done" =>
              /\ pushed = one.lines \o fin.lines
              /\ output_ring = fin.ring

\* C3 witness: a pushed line longer than any chunk, so assembled from several
C3_Witness ==
    /\ render = "done"
    /\ \E k \in 1..Len(pushed) : Len(pushed[k]) > MaxChunk /\ pushed[k][Len(pushed[k])] = NL

\* C4: a run whose child exited with status c returns Ok with exit_code = c,
\* never Err, and success() holds exactly when c = 0.
C4_ExitCodePropagated ==
    /\ result.kind = "Ok" =>
          /\ status # None
          /\ result.value.exit_code = status[1]
          /\ Success(result.value) <=> (status[1] = 0)
    /\ (pc = "returned" /\ status # None) => result.kind = "Ok"

\* C4 witness: a child that exited with 42 and a returned output
C4_Witness ==
    /\ result.kind = "Ok"
    /\ status = Some(42)
    /\ ~Success(result.value)

C6_SpawnFailureIsErr ==
    failed = "spawn_command" =>
        /\ pc = "returned"
        /\ result.kind = "Err"
        /\ reader = "none"
        /\ render = "none"

\* C6 witness: the spawn failed
C6_Witness == failed = "spawn_command" /\ pc = "returned"

\* The setup steps whose failure run_subprocess propagates with `?`
FatalSetupSteps ==
    {"set_scrolling_region", "move_cursor_to_line", "openpty", "spawn_command"}

\* C7 as stated: a run in which the terminal geometry query, a scrolling-region
\* write, the PTY allocation or the spawn failed has returned Err.
C7_Original ==
    (pc = "returned" /\ (size_failed \/ failed \in FatalSetupSteps))
        => result.kind = "Err"

\* C7 as amended: a failed scrolling-region write, PTY allocation or spawn
\* ends the run at once with Err and no tasks started; a failed geometry query
\* does not, the run goes on with the default of 24 rows.
C7_SetupFailuresFatalExceptGeometry ==
    /\ failed \in FatalSetupSteps =>
          /\ pc = "returned"
          /\ result.kind = "Err"
          /\ reader = "none"
          /\ render = "none"
    /\ size_failed => (is_term /\ term_rows = DefaultRows)
    /\ (size_failed /\ pc = "returned" /\ failed = "none") => result.kind = "Ok"

\* C7 witness: the geometry query failed, the run went on, and the cursor move
\* then failed
C7_Witness ==
    /\ size_failed
    /\ failed = "move_cursor_to_line"
    /\ result.kind = "Err"

\* The marker a read error leaves, for the one error text of the model
Marker == ErrorBytes(CHOOSE e \in ErrTexts : TRUE)

\* C8 as stated: when a read error has occurred and the run is about to
\* return, the bytes it returns are the bytes read followed by the marker.
C8_Original ==
    (pc = "return" /\ read_error) => pty_output = reads \o Marker

\* C8 as amended: after a read error the reader has stopped, and accumulator,
\* shared buffer and channel each hold the bytes read followed by the marker;
\* a run that joined the reader before its timeout returns Ok with the child's
\* exit code and stderr equal to those bytes.
C8_ReadErrorRecorded ==
    /\ read_error =>
          /\ reader = "done"
          /\ full_output = reads \o Marker
          /\ collected = reads \o Marker
          /\ sent = reads \o Marker
    /\ (read_error /\ ~reader_timed_out /\ pc = "returned" /\ status # None) =>
          /\ result.kind = "Ok"
          /\ result.value.exit_code = status[1]
          /\ result.value.stderr = reads \o Marker

\* C8 witness: a run that read bytes, hit a read error and returned
C8_Witness ==
    /\ read_error
    /\ ~reader_timed_out
    /\ result.kind = "Ok"
    /\ reads # <<>>
    /\ status = Some(42)

\* C9: on a terminal, the last terminal operation of the control flow is a
\* clear when the exit code is 0, and a reset when it is not, in which case
\* the control flow has issued no clear at all.
C9_FinalTerminalAction ==
    (pc \in {"return", "returned"} /\ failed = "none" /\ was_term) =>
        LET ops == RunOps
            last == ops[Len(ops)]
        IN  /\ status[1] = 0 => last = <<"run", "clear">>
            /\ status[1] # 0 =>
                  /\ last = <<"run", "reset">>
                  /\ \A k \in 1..Len(ops) : ops[k][2] # "clear"

\* C9 witness: a failed child on a terminal whose window had been painted
C9_Witness ==
    /\ pc = "returned"
    /\ was_term
    /\ status = Some(42)
    /\ \E k \in 1..Len(term_out) : term_out[k][2] = "write"

\* C10: the ring never holds more than N lines and is always the last
\* min(N, pushed) lines pushed, in push order: a push past N evicts the oldest.
C10_RingFifo ==
    /\ Len(output_ring) <= stderr_lines
    /\ output_ring = LastN(pushed, stderr_lines)

\* C10 witness: lines were evicted and at least two remain
C10_Witness ==
    /\ Len(pushed) > stderr_lines
    /\ Len(output_ring) >= 2

----------------------------------------------------------------------------
\* C11: for every positive window height and every terminal row count the
\* region computed by the runner satisfies
\* 1 <= region_top <= region_bottom = terminal rows, and a window height of at
\* least the terminal's rows gives the whole terminal (region_top = 1).
C11_RegionWithinTerminal ==
    geom_out # None =>
        LET n == UnwrapLines(geom_in[1].height)
            rows == geom_in[1].rows
            region == geom_out[1]
        IN  /\ 1 <= region.region_top
            /\ region.region_top <= region.region_bottom
            /\ region.region_bottom = rows
            /\ (n >= rows => region.region_top = 1)

----------------------------------------------------------------------------
\* C12: a status line that is active when run_subprocess is called is cleared
\* (progress_bar None, line_count 0, its line off the terminal) before the run
\* writes any terminal sequence or reads any child output, and it is still
\* absent in every later state of the run, the return included.
C12_StatusClearedBeforeRun ==
    /\ (term_out # <<>> \/ reads # <<>>) => pc # "idle"
    /\ pc # "idle" =>
         /\ progress_bar = None
         /\ line_count = 0
         /\ BarLines(screen) = <<>>

C12_Witness ==
    /\ had_progress
    /\ pc = "returned"
    /\ result.kind = "Ok"
    /\ term_out # <<>>
    /\ reads # <<>>

----------------------------------------------------------------------------
\* C13: over every sequence of status() and progress() calls a call made while
\* a status line is active clears the old line before it creates the new one,
\* so the terminal never shows more than one ephemeral line.
C13_OneEphemeralLine == Len(BarLines(screen)) <= 1

----------------------------------------------------------------------------
\* C14: in every reachable Logger state finish() and clear_status() give the
\* same state, with no active status line and line_count = 0, and each is
\* idempotent; right after status() the logger has an active line and
\* line_count = 1.
C14_FinishEqualsClear ==
    LET c == ClearStatus(progress_bar, line_count)
        f == Finish(progress_bar, line_count)
    IN  /\ c = f
        /\ c = [progress_bar |-> None, line_count |-> 0]
        /\ ClearStatus(c.progress_bar, c.line_count) = c
        /\ Finish(f.progress_bar, f.line_count) = f
        /\ last_op \in {"finish", "clear_status"} =>
             progress_bar = None /\ line_count = 0
        /\ last_op = "status" => progress_bar # None /\ line_count = 1

C14_Witness ==
    /\ last_op = "status"
    /\ progress_bar = Some("status")
    /\ line_count = 1
    /\ printed # <<>>
    /\ Finish(progress_bar, line_count).progress_bar = None

----------------------------------------------------------------------------
\* C15: Logger::suspend(f) calls f exactly once and returns what f returned,
\* with or without an active status line, and leaves progress_bar and
\* line_count as they were before the call.
C15_SuspendRunsOnce ==
    last_op = "suspend" =>
        LET call == suspend_log[1]
        IN  /\ call.calls = 1
            /\ call.ret = call.f
            /\ progress_bar = call.bar
            /\ line_count = call.count

C15_Witness ==
    /\ last_op = "suspend"
    /\ progress_bar = None
    /\ suspend_log[1].ret = "r2"
    /\ printed # <<>>

----------------------------------------------------------------------------
\* C16: after the drop of a Logger, in whatever state it was dropped, no status
\* line is active, line_count is 0 and no ephemeral line is on the terminal.
C16_DropClears ==
    last_op = "drop" =>
        /\ progress_bar = None
        /\ line_count = 0
        /\ BarLines(screen) = <<>>

C16_Witness ==
    /\ last_op = "drop"
    /\ drop_taken = Some("status")
    /\ progress_bar = None

----------------------------------------------------------------------------
\* C17: a line printed by status_permanent, print_message, info, warning or
\* error stays on the terminal through every later Logger operation, the drop
\* of the Logger with an active status line included.
C17_PermanentLinesStay == PermLines(screen) = printed

----------------------------------------------------------------------------
\* C18: everything the run writes to the terminal - region set and reset,
\* cursor moves, clears and the lines of the window - goes to standard error,
\* and no state of a run has anything written to standard output.
C18_NothingOnStdout ==
    /\ stdout_out = <<>>
    /\ \A k \in 1..Len(term_out) : Stream(term_out[k]) = "stderr"

C18_Witness ==
    /\ pc = "returned"
    /\ \A kind \in {"set", "move", "clear", "write", "reset"} :
         \E k \in 1..Len(term_out) : term_out[k][2] = kind

----------------------------------------------------------------------------
\* C19: after every iteration of the reader loop the reader's accumulator, the
\* shared fallback buffer and the chunks sent on the channel, concatenated in
\* order, hold the same bytes; the channel keeps the chunks whole and in the
\* order of the reads.
C19_ReaderBuffersAgree ==
    /\ full_output = collected
    /\ collected = sent
    /\ sent = delivered \o Concat(chan)
    /\ (~read_error => sent = reads)
    /\ \A k \in 1..Len(chan) : chan[k] # <<>>

C19_Witness ==
    /\ read_error
    /\ reads # <<>>
    /\ Len(chan) >= 2
    /\ delivered # <<>>
    /\ full_output = reads \o Marker

----------------------------------------------------------------------------
----------------------------------------------------------------------------
\* C21: should_show_progress returns false for "never", true for "always",
\* and for "auto", an unset variable, the empty string and every other value
\* exactly whether stdout is a terminal.
C21_ProgressPolicy ==
    (call_out # None /\ call_in[1].fn = "should_show_progress") =>
        LET env == call_in[1].env
        IN  call_out[1] = IF env = Ok("never") THEN FALSE
                          ELSE IF env = Ok("always") THEN TRUE
                          ELSE call_in[1].tty

C21_Witness ==
    /\ call_out # None
    /\ call_in[1].fn = "should_show_progress"
    /\ call_in[1].env = Ok("on")
    /\ call_in[1].tty
    /\ call_out[1]

----------------------------------------------------------------------------
\* C22: get_owner_repo returns Ok((owner, repo)) when both arguments are
\* given, an error that both must be provided together when exactly one is
\* given, in both cases without calling detect_repo, and what detect_repo
\* returns when neither is given.
C22_OwnerRepoArguments ==
    (call_out # None /\ call_in[1].fn = "get_owner_repo") =>
        LET owner == call_in[1].owner
            repo == call_in[1].repo
            out == call_out[1]
        IN  /\ (owner # None /\ repo # None) =>
                 out.result = Ok(<<owner[1], repo[1]>>) /\ ~out.detected
            /\ ((owner = None) # (repo = None)) =>
                 /\ out.result = Err("Both --owner and --repo must be provided together")
                 /\ ~out.detected
            /\ (owner = None /\ repo = None) =>
                 out.result = call_in[1].detect /\ out.detected

C22_Witness ==
    /\ call_out # None
    /\ call_in[1].fn = "get_owner_repo"
    /\ call_in[1].owner = None
    /\ call_in[1].repo # None
    /\ call_in[1].detect.kind = "Ok"
    /\ call_out[1].result.kind = "Err"

----------------------------------------------------------------------------
\* A decimal numeral without sign or leading zero, and the number it denotes
IsNumeral(b) ==
    /\ b # <<>>
    /\ \A k \in 1..Len(b) : b[k] \in 48..57
    /\ (Len(b) > 1 => b[1] # 48)

RECURSIVE NumeralValue(_)
NumeralValue(b) ==
    IF b = <<>> THEN 0
    ELSE 10 * NumeralValue(SubSeq(b, 1, Len(b) - 1)) + (b[Len(b)] - 48)

\* C23: set_scrolling_region(top, bottom) writes ESC [ top ; bottom r,
\* reset_scrolling_region writes ESC [ r, move_cursor_to_line(line) writes
\* ESC [ line ; 1 H and clear_scrolling_region writes ESC [ J, the numbers in
\* decimal, and nothing else.
C23_EscapeSequences ==
    call_out # None =>
        LET in == call_in[1]
            out == call_out[1]
        IN  /\ in.fn = "set_scrolling_region" =>
                 \E i \in 4..(Len(out) - 2) :
                    /\ SubSeq(out, 1, 2) = <<27, 91>>
                    /\ IsNumeral(SubSeq(out, 3, i - 1))
                    /\ NumeralValue(SubSeq(out, 3, i - 1)) = in.top
                    /\ out[i] = 59
                    /\ IsNumeral(SubSeq(out, i + 1, Len(out) - 1))
                    /\ NumeralValue(SubSeq(out, i + 1, Len(out) - 1)) = in.bottom
                    /\ out[Len(out)] = 114
            /\ in.fn = "move_cursor_to_line" =>
                 /\ Len(out) >= 6
                 /\ SubSeq(out, 1, 2) = <<27, 91>>
                 /\ IsNumeral(SubSeq(out, 3, Len(out) - 3))
                 /\ NumeralValue(SubSeq(out, 3, Len(out) - 3)) = in.line
                 /\ SubSeq(out, Len(out) - 2, Len(out)) = <<59, 49, 72>>
            /\ in.fn = "reset_scrolling_region" => out = <<27, 91, 114>>
            /\ in.fn = "clear_scrolling_region" => out = <<27, 91, 74>>

C23_Witness ==
    /\ call_out # None
    /\ call_in[1].fn = "set_scrolling_region"
    /\ call_in[1].top = 24
    /\ call_in[1].bottom = 65535
    /\ Len(call_out[1]) = 11

----------------------------------------------------------------------------
\* The control flow is past the render join of a run that had no failed step
PastRenderJoin ==
    pc \in {"final_rendering", "return", "returned"} /\ failed = "none"

\* C24: on the normal path - end-of-stream read, reader joined before its
\* timeout - no sender is left when the render join is made, the render task
\* has finalized, and the join ends without the render timeout and yields the
\* final window.
C24_NormalPathRenderJoined ==
    (PastRenderJoin /\ ~reader_timed_out /\ ~read_error) =>
        /\ render = "done"
        /\ ~render_timed_out
        /\ final_ring = output_ring

----------------------------------------------------------------------------
\* C25: after the reader join has timed out the control flow's drop of its
\* sender has closed the channel, and the render task has completed by the
\* end of the render join, with the reader still in its read.
C25_TimeoutClosesChannel ==
    (reader_timed_out /\ pc \in {"join_render", "final_rendering", "return", "returned"}) =>
        /\ ChannelClosed
        /\ (pc # "join_render" => render = "done" /\ ~render_timed_out)

----------------------------------------------------------------------------
\* A step of the render task that writes to the terminal
RenderWrites == (RenderChunk \/ RenderFinalize) /\ term_out' # term_out

\* C26: once run_subprocess has returned its result, no task of the run can
\* write to the terminal any more.
C26_QuietAfterReturn ==
    (pc = "returned" /\ result.kind = "Ok") => ~ENABLED RenderWrites

----------------------------------------------------------------------------
\* C27: every clear the run writes - in a repaint, in the final repaint and
\* at the end of a successful run - comes right after a cursor move to
\* region_top.
C27_ClearAfterMove ==
    \A k \in 1..Len(term_out) :
        term_out[k][2] = "clear" =>
            /\ k > 1
            /\ term_out[k - 1][2] = "move"
            /\ term_out[k - 1][3] = region_top

----------------------------------------------------------------------------
\* C28: whenever run_subprocess has returned after it set the scrolling
\* region, with Ok or with Err, a reset of the region was written after the
\* set.
C28_RegionResetOnReturn ==
    (pc = "returned" /\ failed # "set_scrolling_region") =>
        \A k \in 1..Len(term_out) :
            term_out[k][2] = "set" =>
                \E j \in (k + 1)..Len(term_out) : term_out[j][2] = "reset"

----------------------------------------------------------------------------
\* The order of teardown, read off the position of the control flow
TeardownOrder ==
    LET ended == pc = "returned" /\ result.kind = "Ok"
        finals == {k \in 1..Len(RunOps) : RunOps[k][2] \in {"clear", "reset"}}
    IN  /\ (pc \in {"drop_master", "join_reader", "join_render",
                    "final_rendering", "return"} \/ ended) =>
               child = "exited" /\ status # None
        /\ pc = "drop_master" => master_open
        /\ (pc \in {"join_reader", "join_render", "final_rendering", "return"}
               \/ ended) => ~master_open
        /\ pc \in {"wait_child", "drop_master", "join_reader"} =>
               ~reader_timed_out /\ pty_output = <<>>
        /\ (pc \in {"join_render", "final_rendering", "return"} \/ ended) =>
               reader = "done" \/ reader_timed_out
        /\ pc \in {"wait_child", "drop_master", "join_reader", "join_render"} =>
               ~render_timed_out
        /\ (pc \in {"final_rendering", "return"} \/ ended) =>
               render = "done" \/ render_timed_out
        /\ pc \notin {"return", "returned"} => finals = {}
        /\ ((pc = "return" \/ ended) /\ was_term) => Len(RunOps) \in finals
        /\ pc # "returned" => result = Pending

\* C29 as stated: the order holds in every run and the master is never closed
\* while the child is running.
C29_Original ==
    /\ TeardownOrder
    /\ child = "running" => master_open

\* C29: child exit is observed, then the master is dropped, then the reader
\* is joined or abandoned, then the renderer, then the region is cleared or
\* reset, then the result is returned; the master is closed while the child
\* runs only when run_subprocess returns Err after the spawn.
C29_TeardownOrder ==
    /\ TeardownOrder
    /\ (child = "running" /\ ~master_open) =>
          /\ pc = "returned"
          /\ result.kind = "Err"
          /\ failed \in {"try_clone_reader", "wait"}

C29_Witness ==
    /\ pc = "returned"
    /\ result.kind = "Ok"
    /\ reader_timed_out
    /\ render_timed_out
    /\ was_term
    /\ status = Some(0)

----------------------------------------------------------------------------
\* C30: nothing times the child: while the child runs no join timer has
\* started or fired, the control flow waiting for the child can only see it
\* exit (or the wait fail), also when the reader is already at end-of-stream,
\* and a result is returned only after the exit was observed.
C30_NoTimeoutOnChild ==
    /\ child = "running" =>
          /\ waited = 0 /\ reader_wait = 0 /\ render_wait = 0
          /\ ~reader_timed_out /\ ~render_timed_out
          /\ result.kind # "Ok"
    /\ pc = "wait_child" =>
          /\ child = "running"
          /\ ENABLED ChildExit
          /\ ~ENABLED (Tick \/ JoinReader \/ ReaderTimeout \/ JoinRender
                       \/ RenderTimeout \/ FinalRendering \/ Return)
    /\ result.kind = "Ok" => child = "exited" /\ status # None
    /\ child = "exited" <=> status # None

C30_Witness ==
    /\ pc = "wait_child"
    /\ child = "running"
    /\ reader = "done"
    /\ reads # <<>>
    /\ waited = 0

----------------------------------------------------------------------------
\* C31: when standard error is not a terminal, no state of the run has
\* anything written to the output stream - no region set or reset, no clear,
\* no cursor move, no line of the child's output - whatever the child wrote
\* and whatever its exit code; the renderer still consumes the chunks, and the
\* result holds the whole capture: every byte recorded by the reader when the
\* reader was joined, the fallback copy when it timed out.
C31_SilentWithoutTerminal ==
    (pc # "idle" /\ ~is_term) =>
        /\ term_out = <<>>
        /\ stdout_out = <<>>
        /\ ~was_term
        /\ result.kind = "Ok" =>
             /\ result.value.exit_code = status[1]
             /\ (~reader_timed_out => result.value.stderr = sent)
             /\ (~reader_timed_out /\ ~read_error => result.value.stderr = reads)
             /\ (reader_timed_out => result.value.stderr = snapshot[1])

\* C31 witness: without a terminal a failing child wrote more lines than the
\* window holds, the renderer took them all, and the run returned them
C31_Witness ==
    /\ pc = "returned"
    /\ ~is_term
    /\ result.kind = "Ok"
    /\ result.value.exit_code = 42
    /\ ~reader_timed_out
    /\ Len(pushed) > stderr_lines
    /\ delivered = reads
    /\ result.value.stderr = reads
    /\ term_out = <<>>

----------------------------------------------------------------------------
\* The terminated lines of b, in order
CompleteLines(b) == SelectSeq(StreamLines(b), LAMBDA l : l[Len(l)] = NL)

\* The step in which the render task leaves its receive loop
FinalizeStep == render = "running" /\ render' = "done"

\* The terminal writes added by a step
AddedOps == SubSeq(term_out', Len(term_out) + 1, Len(term_out'))

\* C32: while the render task is in its receive loop, the ring holds only
\* terminated lines - the last min(N, count) terminated lines delivered so
\* far - so the unterminated fragment is no element of it and evicts nothing;
\* when the channel closes with a non-empty fragment, the fragment becomes the
\* last entry of the ring, the oldest line is evicted if the ring then exceeds
\* N, and on a terminal exactly one repaint follows; with an empty fragment
\* the finalize step changes neither the ring nor the terminal.
C32_FragmentHeldBack ==
    /\ [](render = "running" =>
            /\ \A k \in 1..Len(output_ring) :
                 output_ring[k][Len(output_ring[k])] = NL
            /\ Terminators(output_buffer) = {}
            /\ output_ring = LastN(CompleteLines(delivered), stderr_lines)
            /\ delivered = Concat(CompleteLines(delivered)) \o output_buffer)
    /\ [][FinalizeStep =>
            IF output_buffer # <<>>
            THEN /\ output_ring' =
                      (IF Len(output_ring) < stderr_lines THEN output_ring
                       ELSE Tail(output_ring)) \o <<output_buffer>>
                 /\ Len(output_ring') <= stderr_lines
                 /\ AddedOps = (IF is_term
                                THEN <<<<"render", "move", region_top>>,
                                       <<"render", "clear">>>>
                                     \o [k \in 1..Len(output_ring') |->
                                           <<"render", "write", output_ring'[k]>>]
                                ELSE <<>>)
            ELSE /\ output_ring' = output_ring
                 /\ pushed' = pushed
                 /\ UNCHANGED termVars]_vars

\* C32 witness: the channel closed with a fragment pending and a full ring; the
\* fragment is the last entry, the oldest line went, the window was repainted
C32_Witness ==
    /\ render = "done"
    /\ is_term
    /\ Len(pushed) > stderr_lines
    /\ Terminators(pushed[Len(pushed)]) = {}
    /\ output_ring[Len(output_ring)] = pushed[Len(pushed)]
    /\ Len(output_ring) = stderr_lines
    /\ term_out[Len(term_out)] = <<"render", "write", pushed[Len(pushed)]>>

----------------------------------------------------------------------------
(* The PTY reader statement by statement, against the control flow.  In   *)
(* SpecReader one iteration of the reader loop is three steps - extend the *)
(* accumulator, extend the shared buffer under its lock, send the chunk -  *)
(* and leaving the loop is a step of its own, so the timeout arm of the    *)
(* reader join can fall between any two of them.  The render task takes no *)
(* step here, so chan keeps every chunk that was sent.                     *)

\* `chunk` / `error_bytes`: what the current iteration has put into the
\* accumulator and not yet sent
InFlight == SubSeq(full_output, Len(sent) + 1, Len(full_output))

\* Lines 391-395: read returns Ok(n), n > 0; the accumulator is extended
StepRead ==
    /\ reader = "running"
    /\ \E c \in Chunks :
         /\ Len(reads) + Len(c) <= MaxStream
         /\ full_output' = full_output \o c
         /\ reads' = reads \o c
    /\ reader' = "appended"
    /\ UNCHANGED <<read_error, collected, tx_alive, sent, chan>>
    /\ UNCHANGED <<plVars, geomVars, loggerVars, pc, setupVars, failed, child, status, master_open,
                   tx_clone_alive, renderVars, termVars, clockVars, joinVars,
                   result>>

\* Lines 402-406: read returns Err(e); the marker goes into the accumulator
StepReadFails ==
    /\ reader = "running"
    /\ \E e \in ErrTexts : full_output' = full_output \o ErrorBytes(e)
    /\ read_error' = TRUE
    /\ reader' = "appended"
    /\ UNCHANGED <<collected, tx_alive, reads, sent, chan>>
    /\ UNCHANGED <<plVars, geomVars, loggerVars, pc, setupVars, failed, child, status, master_open,
                   tx_clone_alive, renderVars, termVars, clockVars, joinVars,
                   result>>

\* StepCollect without the lock: the shared buffer grows a byte at a time
StepCollect_TornMut ==
    /\ reader = "appended"
    /\ LET rest == SubSeq(full_output, Len(collected) + 1, Len(full_output))
       IN  /\ collected' = Append(collected, rest[1])
           /\ reader' = IF Len(rest) = 1 THEN "collected" ELSE "appended"
    /\ UNCHANGED <<full_output, read_error, tx_alive, reads, sent, chan>>
    /\ UNCHANGED <<plVars, geomVars, loggerVars, pc, setupVars, failed, child, status, master_open,
                   tx_clone_alive, renderVars, termVars, clockVars, joinVars,
                   result>>

\* Lines 397-399 and 407-409: lock the shared buffer, extend it, unlock
StepCollect ==
    /\ reader = "appended"
    /\ collected' = collected \o InFlight
    /\ reader' = "collected"
    /\ UNCHANGED <<full_output, read_error, tx_alive, reads, sent, chan>>
    /\ UNCHANGED <<plVars, geomVars, loggerVars, pc, setupVars, failed, child, status, master_open,
                   tx_clone_alive, renderVars, termVars, clockVars, joinVars,
                   result>>

\* Lines 400 and 410-411: send the chunk; after an error, leave the loop
StepSend ==
    /\ reader = "collected"
    /\ chan' = Append(chan, InFlight)
    /\ sent' = sent \o InFlight
    /\ reader' = IF read_error THEN "stopping" ELSE "running"
    /\ UNCHANGED <<full_output, read_error, collected, tx_alive, reads>>
    /\ UNCHANGED <<plVars, geomVars, loggerVars, pc, setupVars, failed, child, status, master_open,
                   tx_clone_alive, renderVars, termVars, clockVars, joinVars,
                   result>>

\* Line 392: read returns Ok(0), leave the loop
StepEof ==
    /\ reader = "running"
    /\ reader' = "stopping"
    /\ UNCHANGED <<full_output, read_error, collected, tx_alive, reads, sent, chan>>
    /\ UNCHANGED <<plVars, geomVars, loggerVars, pc, setupVars, failed, child, status, master_open,
                   tx_clone_alive, renderVars, termVars, clockVars, joinVars,
                   result>>

\* Lines 416-419: drop the sender, the task completes with the accumulator
StepExit ==
    /\ reader = "stopping"
    /\ tx_alive' = FALSE
    /\ reader' = "done"
    /\ UNCHANGED <<full_output, read_error, collected, reads, sent, chan>>
    /\ UNCHANGED <<plVars, geomVars, loggerVars, pc, setupVars, failed, child, status, master_open,
                   tx_clone_alive, renderVars, termVars, clockVars, joinVars,
                   result>>

ReaderNext ==
    \/ Start \/ SetupTerminal \/ OpenPty \/ SpawnCommand \/ StartTasks
    \/ ChildExit \/ DropMaster
    \/ Tick
    \/ JoinReader \/ ReaderTimeout
    \/ RenderTimeout
    \/ FinalRendering \/ Return
    \/ StepRead \/ StepReadFails \/ StepCollect \/ StepSend
    \/ StepEof \/ StepExit

SpecReader == Init /\ [][ReaderNext]_vars

----------------------------------------------------------------------------
IsPrefix(p, s) == Len(p) <= Len(s) /\ SubSeq(s, 1, Len(p)) = p

\* Every chunk the reader has put into the accumulator, in order
AllChunks == chan \o (IF InFlight # <<>> THEN <<InFlight>> ELSE <<>>)

\* C33 as stated: the snapshot taken in the timeout arm is a prefix of the
\* bytes the reader read from the PTY.
C33_Original ==
    snapshot # None => IsPrefix(snapshot[1], reads)

\* C33 as amended: the snapshot taken in the timeout arm is a prefix of what
\* the reader recorded - the bytes read from the PTY in order, followed by
\* the marker once a read has failed - and ends where a chunk ends; the bytes
\* in it that were read from the PTY are a prefix of the bytes read; the
\* result's stderr is that snapshot, whatever the abandoned reader appends
\* to the shared buffer afterwards.
C33_SnapshotWholeChunks ==
    snapshot # None =>
        /\ reader_timed_out
        /\ IsPrefix(snapshot[1], full_output)
        /\ full_output = reads \o (IF read_error THEN Marker ELSE <<>>)
        /\ IsPrefix(snapshot[1], collected)
        /\ \E k \in 0..Len(AllChunks) :
             snapshot[1] = Concat(SubSeq(AllChunks, 1, k))
        /\ IsPrefix(snapshot[1], reads) \/ snapshot[1] = reads \o Marker
        /\ pty_output = snapshot[1]
        /\ result.kind = "Ok" => result.value.stderr = snapshot[1]

\* C33 witness: the run returned the snapshot of a timed-out reader join, and
\* the abandoned reader has put a further chunk into the shared buffer since
C33_Witness ==
    /\ result.kind = "Ok"
    /\ reader_timed_out
    /\ snapshot # None
    /\ snapshot[1] # <<>>
    /\ result.value.stderr = snapshot[1]
    /\ Len(collected) > Len(snapshot[1])
    /\ Len(chan) >= 2

----------------------------------------------------------------------------
\* C34: after any number of chunks the pending buffer holds no terminator;
\* every line the receive loop has pushed, the evicted ones included, has
\* exactly one terminator and has it at its last byte; and the lines pushed
\* so far, concatenated in order and followed by the pending buffer, are
\* exactly the chunks received, concatenated in order.
C34_SplitKeepsEveryByte ==
    /\ Terminators(output_buffer) = {}
    /\ Concat(pushed) \o output_buffer = delivered
    /\ render = "running" =>
         \A k \in 1..Len(pushed) : Terminators(pushed[k]) = {Len(pushed[k])}

\* C34 witness: the receive loop has pushed more lines than the window
\* holds, so a line was evicted, and a fragment is pending
C34_Witness ==
    /\ render = "running"
    /\ Len(pushed) > Len(output_ring)
    /\ output_buffer # <<>>
    /\ Len(delivered) = MaxStream

----------------------------------------------------------------------------
\* C35: in every state a sequence of Logger operations reaches - new, status,
\* progress, set_progress_message, clear_status, finish, suspend and
\* run_subprocess, and the printing methods and the drop as well - line_count
\* is 0 or 1, and it is 0 whenever the logger holds no status line.
C35_LineCountZeroOrOne ==
    /\ line_count \in {0, 1}
    /\ progress_bar = None => line_count = 0

\* C35 witness: a status line was shown and counted, a closure ran under it,
\* and a run then cleared it
C35_Witness ==
    /\ last_op = "run_subprocess"
    /\ suspend_log # None
    /\ suspend_log[1].bar # None
    /\ suspend_log[1].count = 1
    /\ progress_bar = None
    /\ line_count = 0

----------------------------------------------------------------------------
(* The ProgressLogger of progress_logger.rs.  Every call reads the         *)
(* environment afresh: env is env::var("CARGO_TERM_PROGRESS_WHEN"), tty is *)
(* std::io::stdout().is_terminal().                                        *)

MaxPos == 2         \* increments of a bar that are followed
MaxLines == 2       \* lines a ProgressLogger prints

Totals == {1, 2}
Messages == {"m1", "m2"}

\* should_show_progress that looks at quiet only after "never" and "always"
ProgressLoggerShows_AlwaysFirstMut(q, env, tty) ==
    LET when == IF env.kind = "Ok" THEN env.value ELSE "auto"
    IN  CASE when = "never"  -> FALSE
          [] when = "always" -> TRUE
          [] OTHER           -> ~q /\ tty

\* ProgressLogger::should_show_progress
ProgressLoggerShows(q, env, tty) ==
    IF q THEN FALSE
    ELSE LET when == IF env.kind = "Ok" THEN env.value ELSE "auto"
         IN  CASE when = "never"  -> FALSE
               [] when = "always" -> TRUE
               [] when = "auto"   -> tty
               [] OTHER           -> tty

\* ProgressBar::new(total)
NewBar(total) == [len |-> total, pos |-> 0, msg |-> ""]

\* ProgressLogger::new(quiet)
ProgressInit ==
    /\ InitProgram
    /\ geom_in = None
    /\ geom_out = None
    /\ call_in = None
    /\ call_out = None
    /\ quiet \in BOOLEAN
    /\ progress = None
    /\ pl_stdout = <<>>
    /\ pl_last = None

PlShouldShowProgress ==
    /\ \E env \in EnvResults(WhenValues), tty \in BOOLEAN :
         pl_last' = Some([op |-> "should_show_progress", env |-> env, tty |-> tty,
                          ret |-> ProgressLoggerShows(quiet, env, tty)])
    /\ UNCHANGED <<quiet, progress, pl_stdout, geomVars, loggerVars, pc, setupVars,
                   failed, child, status, master_open, tx_clone_alive, chan,
                   readerVars, renderVars, termVars, clockVars, joinVars,
                   result>>

\* ProgressLogger::set_progress
PlSetProgress ==
    /\ \E total \in Totals, env \in EnvResults(WhenValues), tty \in BOOLEAN :
         LET show == ProgressLoggerShows(quiet, env, tty)
         IN  /\ progress' = IF ~show THEN progress ELSE Some(NewBar(total))
             /\ pl_last' = Some([op |-> "set_progress", env |-> env, tty |-> tty,
                                 ret |-> show])
    /\ UNCHANGED <<quiet, pl_stdout, geomVars, loggerVars, pc, setupVars,
                   failed, child, status, master_open, tx_clone_alive, chan,
                   readerVars, renderVars, termVars, clockVars, joinVars,
                   result>>

\* ProgressLogger::set_message
PlSetMessage ==
    /\ progress # None
    /\ \E m \in Messages : progress' = Some([progress[1] EXCEPT !.msg = m])
    /\ UNCHANGED <<quiet, pl_stdout, pl_last, geomVars, loggerVars, pc, setupVars,
                   failed, child, status, master_open, tx_clone_alive, chan,
                   readerVars, renderVars, termVars, clockVars, joinVars,
                   result>>

\* ProgressLogger::inc
PlInc ==
    /\ progress # None
    /\ progress[1].pos < MaxPos
    /\ progress' = Some([progress[1] EXCEPT !.pos = @ + 1])
    /\ UNCHANGED <<quiet, pl_stdout, pl_last, geomVars, loggerVars, pc, setupVars,
                   failed, child, status, master_open, tx_clone_alive, chan,
                   readerVars, renderVars, termVars, clockVars, joinVars,
                   result>>

\* ProgressLogger::println: println! inside pb.suspend or directly, unless quiet
PlPrintln ==
    /\ Len(pl_stdout) < MaxLines
    /\ \E m \in Messages :
         pl_stdout' = IF ~quiet THEN Append(pl_stdout, <<"println", m>>)
                      ELSE pl_stdout
    /\ pl_last' = Some([op |-> "println"])
    /\ UNCHANGED <<quiet, progress, geomVars, loggerVars, pc, setupVars,
                   failed, child, status, master_open, tx_clone_alive, chan,
                   readerVars, renderVars, termVars, clockVars, joinVars,
                   result>>

\* ProgressLogger::status: println!("   {} {}", action, target), unless quiet
PlStatus ==
    /\ Len(pl_stdout) < MaxLines
    /\ \E m \in Messages :
         pl_stdout' = IF ~quiet THEN Append(pl_stdout, <<"status", "action", m>>)
                      ELSE pl_stdout
    /\ pl_last' = Some([op |-> "status"])
    /\ UNCHANGED <<quiet, progress, geomVars, loggerVars, pc, setupVars,
                   failed, child, status, master_open, tx_clone_alive, chan,
                   readerVars, renderVars, termVars, clockVars, joinVars,
                   result>>

\* ProgressLogger::finish
PlFinish ==
    /\ progress' = None
    /\ pl_last' = Some([op |-> "finish"])
    /\ UNCHANGED <<quiet, pl_stdout, geomVars, loggerVars, pc, setupVars,
                   failed, child, status, master_open, tx_clone_alive, chan,
                   readerVars, renderVars, termVars, clockVars, joinVars,
                   result>>

ProgressNext ==
    \/ PlShouldShowProgress \/ PlSetProgress
    \/ PlSetMessage \/ PlInc
    \/ PlPrintln \/ PlStatus
    \/ PlFinish

SpecProgress == ProgressInit /\ [][ProgressNext]_vars

----------------------------------------------------------------------------
\* C36: a ProgressLogger created with quiet = true has no bar and has printed
\* nothing in any state it reaches, whatever methods were called and whatever
\* the environment said at each call: its should_show_progress returns false
\* for every value of CARGO_TERM_PROGRESS_WHEN, "always" included, so
\* set_progress creates no bar, and println and status print nothing.  With
\* quiet = false its should_show_progress returns what
\* tty::should_show_progress returns in the same environment, and
\* set_progress creates the bar exactly then.
C36_QuietShowsNothing ==
    /\ quiet => (progress = None /\ pl_stdout = <<>>)
    /\ (pl_last # None /\ pl_last[1].op \in {"should_show_progress", "set_progress"}) =>
         /\ quiet => ~pl_last[1].ret
         /\ ~quiet => pl_last[1].ret = ShouldShowProgress(pl_last[1].env, pl_last[1].tty)
         /\ (pl_last[1].op = "set_progress" /\ pl_last[1].ret) => progress # None
    /\ \A e \in EnvResults(WhenValues), t \in BOOLEAN :
         /\ ~ProgressLoggerShows(TRUE, e, t)
         /\ ProgressLoggerShows(FALSE, e, t) = ShouldShowProgress(e, t)

\* C36 witness: a quiet ProgressLogger was asked for a bar on a terminal with
\* CARGO_TERM_PROGRESS_WHEN=always
C36_Witness ==
    /\ quiet
    /\ pl_last # None
    /\ pl_last[1].op = "set_progress"
    /\ pl_last[1].env = Ok("always")
    /\ pl_last[1].tty
    /\ progress = None

----------------------------------------------------------------------------
\* The positions of '/' in s
Slashes(s) == {i \in 1..Len(s) : s[i] = Slash}

\* The git remote yields an owner and a repo: a URL with one of the two
\* GitHub prefixes and a '/' after it
GitYields(git) ==
    /\ git.kind = "url"
    /\ \E p \in {SshPrefix, HttpsPrefix} :
         /\ Len(p) <= Len(git.url)
         /\ SubSeq(git.url, 1, Len(p)) = p
         /\ \E i \in Slashes(git.url) : i > Len(p)

\* C37: GITHUB_REPOSITORY comes before the git remote.  A value with exactly
\* one '/' - two parts - is returned as (owner, repo), the text before and the
\* text after the '/', and git is not consulted.  When the variable is unset,
\* is not Unicode, or has no '/' or more than one, git is consulted: the
\* result is an error exactly when the remote yields no owner and repo, and
\* otherwise it holds no part of the variable.
C37_EnvBeforeGit ==
    (call_out # None /\ call_in[1].fn = "detect_repo") =>
        LET env == call_in[1].github_repository
            git == call_in[1].git
            out == call_out[1]
            two == env.kind = "Ok" /\ Cardinality(Slashes(env.value)) = 1
        IN  /\ two =>
                 LET at == CHOOSE i \in Slashes(env.value) : TRUE
                 IN  /\ out.result = Ok(<<SubSeq(env.value, 1, at - 1),
                                          SubSeq(env.value, at + 1, Len(env.value))>>)
                     /\ ~out.git
            /\ ~two =>
                 /\ out.git
                 /\ out.result.kind = "Err" <=> ~GitYields(git)
                 /\ out.result.kind = "Ok" =>
                      /\ out.result.value[1] = <<"g">>
                      /\ out.result.value[2] \in {<<"h">>, <<>>}

\* C37 witness: a variable with three parts was passed over and the owner and
\* repo came from an ssh remote
C37_Witness ==
    /\ call_out # None
    /\ call_in[1].fn = "detect_repo"
    /\ call_in[1].github_repository = Ok(<<"o", "/", "r", "/", "x">>)
    /\ call_in[1].git.kind = "url"
    /\ call_out[1].git
    /\ call_out[1].result = Ok(<<<<"g">>, <<"h">>>>)

====
